---- MODULE Spec2Model ----
(***************************************************************************)
(* Venue scheduling and notification fan-out of Smart-comms-Backend.       *)
(*                                                                         *)
(* The schedule handlers exist twice in the repository with the same       *)
(* validation, authorization, conflict-query and write logic: the          *)
(* controller (src/unnamed/part_003) and the schedule service              *)
(* (src/src/services/course-service/server.js, lines 829-1332).  They      *)
(* differ only in how the fan-out is written: the controller inserts the   *)
(* Notification rows itself, the service posts one request per student to  *)
(* the notification service.                                               *)
(*                                                                         *)
(* Time-of-day values are the strings the handlers receive.  A string is   *)
(* modelled as the sequence of its characters, a digit by its value and    *)
(* ':' by 10, which keeps the code-unit order of the characters            *)
(* ('0' < ... < '9' < ':'), so that the comparisons of the handlers and    *)
(* of the conflict query are comparisons of strings, as in the code.       *)
(***************************************************************************)
EXTENDS Integers, Sequences, FiniteSets, TLC

VARIABLES
    users,          \* User table: id -> role
    venues,         \* Venue table: id -> status
    courses,        \* Course table: id -> lecturerId
    enrollments,    \* Enrollment table: set of [courseId, studentId, status]
    schedules,      \* Schedule table: id -> slot record
    notifications,  \* Notification table, in insertion order
    resp,           \* the response of the last handled request
    inflight,       \* requests between their conflict query and their write
    probe,          \* inputs and results of the operator under direct test
    emitted,        \* the live events the last handled request emitted
    calls,          \* the request a handler is carrying out step by step
    announcements,  \* Announcement table, in insertion order
    sockets,        \* the sockets of the two Socket.IO servers, by socket id
    rooms,          \* the adapters' room membership: pairs <<room, socket id>>
    connectedUsers, \* the connectedUsers Map of each server: userId -> socket id
    delivered       \* the events the last handled call sent to sockets

vars == <<users, venues, courses, enrollments, schedules, notifications,
          resp, inflight, probe, emitted, calls, announcements, sockets,
          rooms, connectedUsers, delivered>>

(***************************************************************************)
(* Bounds of the model.                                                    *)
(***************************************************************************)
MaxNotifs == 2
MaxInflight == 2

NoValue == "none"      \* an omitted (falsy) request field
NoTime == << >>        \* an omitted or empty (falsy) time field

\* the ids prisma.schedule.create draws from (uuid() in the schema)
ScheduleIds == {1, 2}

\* Time strings used as request inputs.
T0900 == <<0, 9, 10, 0, 0>>
T0930 == <<0, 9, 10, 3, 0>>
T1000 == <<1, 0, 10, 0, 0>>
T1030 == <<1, 0, 10, 3, 0>>
T1100 == <<1, 1, 10, 0, 0>>
T2400 == <<2, 4, 10, 0, 0>>   \* not a time of day: rejected by the format check

(***************************************************************************)
(* String order, as applied by >= on two strings in the handlers and by    *)
(* lt/lte/gt/gte on the String columns in the conflict query.              *)
(***************************************************************************)
RECURSIVE StrLt(_, _)
StrLt(a, b) ==
    IF b = << >> THEN FALSE
    ELSE IF a = << >> THEN TRUE
    ELSE IF Head(a) < Head(b) THEN TRUE
    ELSE IF Head(a) > Head(b) THEN FALSE
    ELSE StrLt(Tail(a), Tail(b))

StrLe(a, b) == a = b \/ StrLt(a, b)

\* /^([0-1]?[0-9]|2[0-3]):[0-5][0-9]$/
validateTimeFormat(t) ==
    LET IsDigit(c) == c \in 0..9
        Minute(m) == Len(m) = 3 /\ m[1] = 10 /\ m[2] \in 0..5 /\ IsDigit(m[3])
    IN  \/ Len(t) = 4 /\ IsDigit(t[1]) /\ Minute(SubSeq(t, 2, 4))
        \/ /\ Len(t) = 5
           /\ \/ t[1] \in 0..1 /\ IsDigit(t[2])
              \/ t[1] = 2 /\ t[2] \in 0..3
           /\ Minute(SubSeq(t, 3, 5))

validDays == {"MONDAY", "TUESDAY", "WEDNESDAY", "THURSDAY", "FRIDAY",
              "SATURDAY", "SUNDAY"}

validateDayOfWeek(day) == day \in validDays

\* middleware/role: the route lets the request through for the listed roles
authorize(roles, u) == users[u] \in roles

(***************************************************************************)
(* The conflict query: the where clause of prisma.schedule.findFirst.      *)
(* ConflictWhere is the OR of the three AND pairs for one stored row.      *)
(***************************************************************************)
\* gt and lt replaced by gte and lte: boundary-adjacent slots conflict
ConflictWhereInclusive(row, startTime, endTime) ==
    \/ StrLe(row.startTime, startTime) /\ StrLe(startTime, row.endTime)
    \/ StrLe(row.startTime, endTime) /\ StrLe(endTime, row.endTime)
    \/ StrLe(startTime, row.startTime) /\ StrLe(row.endTime, endTime)

\* the third AND pair left out: a stored slot inside the candidate is missed
ConflictWhereNoContained(row, startTime, endTime) ==
    \/ StrLe(row.startTime, startTime) /\ StrLt(startTime, row.endTime)
    \/ StrLt(row.startTime, endTime) /\ StrLe(endTime, row.endTime)

ConflictWhere(row, startTime, endTime) ==
    \/ StrLe(row.startTime, startTime) /\ StrLt(startTime, row.endTime)
    \/ StrLt(row.startTime, endTime) /\ StrLe(endTime, row.endTime)
    \/ StrLe(startTime, row.startTime) /\ StrLe(row.endTime, endTime)

\* the query without its dayOfWeek filter
conflictingScheduleAnyDay(table, venueId, dayOfWeek, startTime, endTime) ==
    { i \in DOMAIN table :
        /\ table[i].venueId = venueId
        /\ ConflictWhere(table[i], startTime, endTime) }

\* the ids of the rows the query of createSchedule matches
conflictingSchedule(table, venueId, dayOfWeek, startTime, endTime) ==
    { i \in DOMAIN table :
        /\ table[i].venueId = venueId
        /\ table[i].dayOfWeek = dayOfWeek
        /\ ConflictWhere(table[i], startTime, endTime) }

\* the query run on the venue of the stored slot instead of the resulting one
conflictingScheduleStoredVenue(table, id, venueId, dayOfWeek, startTime, endTime) ==
    conflictingSchedule(table, table[id].venueId, dayOfWeek, startTime,
                        endTime) \ {id}

\* the query without id: { not: id }
conflictingScheduleWithSelf(table, id, venueId, dayOfWeek, startTime, endTime) ==
    conflictingSchedule(table, venueId, dayOfWeek, startTime, endTime)

\* the query of updateSchedule: the same, with id: { not: id }
conflictingScheduleExcept(table, id, venueId, dayOfWeek, startTime, endTime) ==
    conflictingSchedule(table, venueId, dayOfWeek, startTime, endTime) \ {id}

(***************************************************************************)
(* Fan-out helpers of services/notificationService.                        *)
(***************************************************************************)
RECURSIVE SetToSeq(_)
SetToSeq(S) ==
    IF S = {} THEN << >>
    ELSE LET x == CHOOSE y \in S : TRUE
         IN  <<x>> \o SetToSeq(S \ {x})

\* the value of now() at an insert: later than every stored createdAt
Now ==
    IF notifications = << >> THEN 1
    ELSE notifications[Len(notifications)].createdAt + 1

\* a new Notification row: read defaults to false, createdAt to now()
Record(userId, type, message, link) ==
    [userId |-> userId, type |-> type, message |-> message, link |-> link,
     read |-> FALSE, createdAt |-> Now]

\* enrollment.findMany({ where: { courseId, studentId: { notIn } } })
RosterStudentIds(courseId, excludeStudentIds) ==
    { e.studentId : e \in { x \in enrollments :
                              /\ x.courseId = courseId
                              /\ x.studentId \notin excludeStudentIds } }

\* the rows notifyCourseStudents inserts with createMany
notifyCourseStudents(courseId, type, message, link, excludeStudentIds) ==
    LET ids == SetToSeq(RosterStudentIds(courseId, excludeStudentIds))
    IN  [ k \in 1..Len(ids) |-> Record(ids[k], type, message, link) ]

\* the selection without where.id = { not: excludeUserId }
AudienceUserIdsNotExcluding(targetAudience, excludeUserId) ==
    { u \in DOMAIN users :
        /\ targetAudience = "STUDENTS" => users[u] = "STUDENT"
        /\ targetAudience = "LECTURERS" => users[u] = "LECTURER" }

\* the users a targetAudience selects
AudienceUserIds(targetAudience, excludeUserId) ==
    { u \in DOMAIN users :
        /\ targetAudience = "STUDENTS" => users[u] = "STUDENT"
        /\ targetAudience = "LECTURERS" => users[u] = "LECTURER"
        /\ u # excludeUserId }

\* the rows createNotification inserts for a targetAudience
createNotification(type, message, link, targetAudience, excludeUserId) ==
    LET ids == SetToSeq(AudienceUserIds(targetAudience, excludeUserId))
    IN  [ k \in 1..Len(ids) |-> Record(ids[k], type, message, link) ]

(***************************************************************************)
(* Responses.                                                              *)
(***************************************************************************)
Response(op, status, err, u, id, courseId) ==
    [op |-> op, status |-> status, err |-> err, user |-> u, id |-> id,
     courseId |-> courseId]

NoResponse == Response("none", 0, "none", NoValue, 0, NoValue)

\* no operator applied directly yet
NoProbe == [op |-> "none"]

\* no request is being carried out step by step
NoCall == [op |-> "none", stage |-> "answered", seq |-> 0]

\* global.socketAPI, the socket server the process installs
socketAPI == TRUE

\* a room of a socket server: user:<id>, role:<role> or course:<id>
Room(kind, name) == <<kind, name>>

\* the target of io.emit: every socket of the server
AllSockets == Room("all", "all")

\* one io.to(room).emit(event, ...) of the server io
RoomEmit(io, room, event, type) ==
    [io |-> io, to |-> room, event |-> event, type |-> type]

\* the sockets an emit to a room reaches: the members of the room that are
\* connected sockets of the server
Members(io, room) ==
    { c \in DOMAIN sockets :
        /\ sockets[c].io = io
        /\ sockets[c].connected
        /\ (room = AllSockets \/ <<room, c>> \in rooms) }

\* what a set of emits sends: one packet to each member for each emit
Deliveries(E) ==
    { [conn |-> p[2], event |-> p[1].event, type |-> p[1].type,
       room |-> p[1].to] :
        p \in { q \in E \X DOMAIN sockets :
                  q[2] \in Members(q[1].io, q[1].to) } }

\* the emits of a handled request and what they send
Emit(E) ==
    /\ emitted' = E
    /\ delivered' = Deliveries(E)

\* socketAPI.sendNotification(userId, notification)
sendNotification(userId, type) ==
    RoomEmit("api", Room("user", userId), "notification", type)

\* socketAPI.broadcastScheduleUpdate(payload): the course room, the
\* lecturer's user room and the ADMIN role room, one emit each
broadcastScheduleUpdate(courseId, lecturerId, type) ==
    (IF courseId # NoValue
     THEN {RoomEmit("api", Room("course", courseId), "schedule-update", type)}
     ELSE {})
    \cup (IF lecturerId # NoValue
          THEN {RoomEmit("api", Room("user", lecturerId), "schedule-update",
                         type)}
          ELSE {})
    \cup {RoomEmit("api", Room("role", "ADMIN"), "schedule-update", type)}

\* the events a schedule handler emits after its fan-out: sendNotification
\* to each notified student and one broadcastScheduleUpdate
LiveEvents(type, studentIds, courseId, lecturerId) ==
    IF socketAPI
    THEN { sendNotification(st, type) : st \in studentIds }
         \cup broadcastScheduleUpdate(courseId, lecturerId, type)
    ELSE {}

\* an error raised after the live events of the handler
RejectAfterEvents(op, status, err, u, id, courseId) ==
    /\ resp' = Response(op, status, err, u, id, courseId)
    /\ Emit(LiveEvents("SCHEDULE_UPDATE", {}, courseId, NoValue))
    /\ UNCHANGED <<users, venues, courses, enrollments, schedules,
                   notifications, inflight, probe, calls, announcements,
                   sockets, rooms, connectedUsers>>

\* return next(new AppError(...)): nothing is written
Reject(op, status, err, u, id, courseId) ==
    /\ resp' = Response(op, status, err, u, id, courseId)
    /\ Emit({})
    /\ UNCHANGED <<users, venues, courses, enrollments, schedules,
                   notifications, inflight, probe, calls, announcements,
                   sockets, rooms, connectedUsers>>

\* the Notification table is kept finite: MaxNotifs rows for each user
NotifCap == MaxNotifs * Cardinality(DOMAIN users)

\* the id of the row prisma.schedule.create inserts
NewId == CHOOSE i \in ScheduleIds \ DOMAIN schedules :
            \A j \in ScheduleIds \ DOMAIN schedules : i <= j

(***************************************************************************)
(* createSchedule, POST /api/schedules.                                    *)
(***************************************************************************)
\* the error the checks before the write end in, "none" when all pass
createScheduleError(u, venueId, courseId, dayOfWeek, startTime, endTime) ==
    IF ~authorize({"LECTURER", "ADMIN"}, u) THEN <<403, "forbidden">>
    ELSE IF NoValue \in {venueId, courseId, dayOfWeek}
            \/ NoTime \in {startTime, endTime}
        THEN <<400, "validation">>
    ELSE IF ~validateDayOfWeek(dayOfWeek) THEN <<400, "validation">>
    ELSE IF ~validateTimeFormat(startTime) \/ ~validateTimeFormat(endTime)
        THEN <<400, "validation">>
    ELSE IF ~StrLt(startTime, endTime) THEN <<400, "validation">>
    ELSE IF venueId \notin DOMAIN venues THEN <<404, "notfound">>
    ELSE IF courseId \notin DOMAIN courses THEN <<404, "notfound">>
    ELSE IF users[u] = "LECTURER" /\ courses[courseId] # u
        THEN <<403, "forbidden">>
    ELSE IF conflictingSchedule(schedules, venueId, dayOfWeek,
                                startTime, endTime) # {}
        THEN <<400, "conflict">>
    ELSE <<201, "none">>

createSchedule(u, venueId, courseId, dayOfWeek, startTime, endTime) ==
    LET e == createScheduleError(u, venueId, courseId, dayOfWeek,
                                 startTime, endTime)
    IN  IF e[2] # "none"
        THEN Reject("createSchedule", e[1], e[2], u, 0, courseId)
        ELSE LET created == notifyCourseStudents(courseId, "SCHEDULE_CREATED",
                                <<"New schedule added for", courseId, dayOfWeek>>,
                                <<"courses", courseId>>, {})
             IN  /\ ScheduleIds \ DOMAIN schedules # {}
                 /\ Len(notifications) + Len(created) <= NotifCap
                 /\ schedules' = (NewId :> [venueId |-> venueId,
                                            lecturerId |-> courses[courseId],
                                            courseId |-> courseId,
                                            dayOfWeek |-> dayOfWeek,
                                            startTime |-> startTime,
                                            endTime |-> endTime]) @@ schedules
                 /\ notifications' = notifications \o created
                 /\ resp' = Response("createSchedule", 201, "none", u, NewId,
                                     courseId)
                 /\ Emit(LiveEvents("SCHEDULE_CREATED",
                                    RosterStudentIds(courseId, {}),
                                    courseId, courses[courseId]))
                 /\ UNCHANGED <<users, venues, courses, enrollments, inflight,
                                probe, calls, announcements,
                                sockets, rooms, connectedUsers>>

(***************************************************************************)
(* updateSchedule, PUT /api/schedules/:id.  A field of the body that is    *)
(* omitted is NoValue.                                                     *)
(***************************************************************************)
\* the value the write leaves in a column: the supplied one, else the stored
Resulting(supplied, stored) == IF supplied # NoValue THEN supplied ELSE stored

ResultingTime(supplied, stored) ==
    IF supplied # NoTime THEN supplied ELSE stored

updateScheduleError(u, id, venueId, courseId, dayOfWeek, startTime, endTime) ==
    IF id \notin DOMAIN schedules THEN <<404, "notfound">>
    ELSE IF users[u] # "ADMIN" /\ schedules[id].lecturerId # u
        THEN <<403, "forbidden">>
    ELSE IF venueId # NoValue /\ venueId \notin DOMAIN venues
        THEN <<404, "notfound">>
    ELSE IF courseId # NoValue /\ courseId \notin DOMAIN courses
        THEN <<404, "notfound">>
    ELSE IF courseId # NoValue /\ users[u] # "ADMIN" /\ courses[courseId] # u
        THEN <<403, "forbidden">>
    ELSE IF dayOfWeek # NoValue /\ ~validateDayOfWeek(dayOfWeek)
        THEN <<400, "validation">>
    ELSE IF startTime # NoTime /\ ~validateTimeFormat(startTime)
        THEN <<400, "validation">>
    ELSE IF endTime # NoTime /\ ~validateTimeFormat(endTime)
        THEN <<400, "validation">>
    ELSE IF /\ \/ {venueId, dayOfWeek} # {NoValue}
               \/ {startTime, endTime} # {NoTime}
            /\ conflictingScheduleExcept(schedules, id,
                    Resulting(venueId, schedules[id].venueId),
                    Resulting(dayOfWeek, schedules[id].dayOfWeek),
                    ResultingTime(startTime, schedules[id].startTime),
                    ResultingTime(endTime, schedules[id].endTime)) # {}
        THEN <<400, "conflict">>
    ELSE <<200, "none">>

\* the row after prisma.schedule.update({ where: { id }, data: updateData })
updatedSchedule(id, venueId, courseId, dayOfWeek, startTime, endTime) ==
    [venueId |-> Resulting(venueId, schedules[id].venueId),
     lecturerId |-> IF courseId # NoValue THEN courses[courseId]
                    ELSE schedules[id].lecturerId,
     courseId |-> Resulting(courseId, schedules[id].courseId),
     dayOfWeek |-> Resulting(dayOfWeek, schedules[id].dayOfWeek),
     startTime |-> ResultingTime(startTime, schedules[id].startTime),
     endTime |-> ResultingTime(endTime, schedules[id].endTime)]

updateSchedule(u, id, venueId, courseId, dayOfWeek, startTime, endTime) ==
    LET e == updateScheduleError(u, id, venueId, courseId, dayOfWeek,
                                 startTime, endTime)
    IN  IF e[2] # "none"
        THEN Reject("updateSchedule", e[1], e[2], u, id,
                    IF id \in DOMAIN schedules THEN schedules[id].courseId
                    ELSE NoValue)
        ELSE LET row == updatedSchedule(id, venueId, courseId, dayOfWeek,
                                        startTime, endTime)
                 created ==
                     createNotification("SCHEDULE_UPDATE",
                         <<"Schedule updated for", row.courseId>>,
                         <<"schedules", id>>, "ALL", NoValue)
                     \o notifyCourseStudents(row.courseId, "SCHEDULE_UPDATE",
                         <<"Schedule updated for", row.courseId>>,
                         <<"courses", row.courseId>>, {})
             IN  /\ Len(notifications) + Len(created) <= NotifCap
                 /\ schedules' = [schedules EXCEPT ![id] = row]
                 /\ notifications' = notifications \o created
                 /\ resp' = Response("updateSchedule", 200, "none", u, id,
                                     schedules[id].courseId)
                 /\ Emit(LiveEvents("SCHEDULE_UPDATE",
                                    RosterStudentIds(row.courseId, {}),
                                    row.courseId, row.lecturerId))
                 /\ UNCHANGED <<users, venues, courses, enrollments, inflight,
                                probe, calls, announcements,
                                sockets, rooms, connectedUsers>>

(***************************************************************************)
(* deleteSchedule, DELETE /api/schedules/:id.                              *)
(***************************************************************************)
deleteScheduleError(u, id) ==
    IF id \notin DOMAIN schedules THEN <<404, "notfound">>
    ELSE IF users[u] # "ADMIN" /\ schedules[id].lecturerId # u
        THEN <<403, "forbidden">>
    ELSE <<200, "none">>

deleteSchedule(u, id) ==
    LET e == deleteScheduleError(u, id)
    IN  IF e[2] # "none"
        THEN Reject("deleteSchedule", e[1], e[2], u, id,
                    IF id \in DOMAIN schedules THEN schedules[id].courseId
                    ELSE NoValue)
        ELSE LET created ==
                     notifyCourseStudents(schedules[id].courseId,
                         "SCHEDULE_REMOVED",
                         <<"A schedule you were enrolled in has been removed">>,
                         <<"courses", schedules[id].courseId>>, {})
             IN  /\ Len(notifications) + Len(created) <= NotifCap
                 /\ schedules' = [ i \in DOMAIN schedules \ {id} |->
                                     schedules[i] ]
                 /\ notifications' = notifications \o created
                 /\ resp' = Response("deleteSchedule", 200, "none", u, id,
                                     schedules[id].courseId)
                 /\ Emit(LiveEvents("SCHEDULE_REMOVED",
                                    RosterStudentIds(schedules[id].courseId,
                                                     {}),
                                    schedules[id].courseId,
                                    schedules[id].lecturerId))
                 /\ UNCHANGED <<users, venues, courses, enrollments, inflight,
                                probe, calls, announcements,
                                sockets, rooms, connectedUsers>>

(***************************************************************************)
(* updateCourse, PUT /api/courses/:id, as far as it reassigns the          *)
(* lecturer; the other columns of a course are not modelled.               *)
(***************************************************************************)
updateCourseError(u, id, lecturerId) ==
    IF ~authorize({"LECTURER", "ADMIN"}, u) THEN <<403, "forbidden">>
    ELSE IF id \notin DOMAIN courses THEN <<404, "notfound">>
    ELSE IF users[u] # "ADMIN" /\ courses[id] # u THEN <<403, "forbidden">>
    ELSE IF /\ lecturerId # NoValue
            /\ users[u] = "ADMIN"
            /\ ~(lecturerId \in DOMAIN users
                 /\ users[lecturerId] \in {"LECTURER", "ADMIN"})
        THEN <<400, "validation">>
    ELSE <<200, "none">>

updateCourse(u, id, lecturerId) ==
    LET e == updateCourseError(u, id, lecturerId)
    IN  IF e[2] # "none"
        THEN Reject("updateCourse", e[1], e[2], u, 0, id)
        ELSE /\ courses' = IF lecturerId # NoValue /\ users[u] = "ADMIN"
                           THEN [courses EXCEPT ![id] = lecturerId]
                           ELSE courses
             /\ resp' = Response("updateCourse", 200, "none", u, 0, id)
             /\ Emit({})
             /\ UNCHANGED <<users, venues, enrollments, schedules,
                            notifications, inflight, probe, calls,
                            announcements, sockets, rooms, connectedUsers>>

(***************************************************************************)
(* SpecCreate: createSchedule requests one at a time on a fixed database.  *)
(***************************************************************************)
EmptyTables ==
    /\ schedules = << >>
    /\ notifications = << >>
    /\ resp = NoResponse
    /\ inflight = {}
    /\ probe = NoProbe
    /\ emitted = {}
    /\ delivered = {}
    /\ sockets = << >>
    /\ rooms = {}
    /\ connectedUsers = [api |-> << >>, notification |-> << >>]
    /\ calls = NoCall
    /\ announcements = << >>

InitCreate ==
    /\ users = [a |-> "ADMIN", l1 |-> "LECTURER", s1 |-> "STUDENT"]
    /\ venues = [V |-> "AVAILABLE", W |-> "AVAILABLE"]
    /\ courses = [c1 |-> "l1"]
    /\ enrollments = {[courseId |-> "c1", studentId |-> "s1",
                       status |-> "ACTIVE"]}
    /\ EmptyTables

\* the (startTime, endTime) pairs of the requests
CreateIntervals ==
    {<<T0900, T1000>>, <<T0930, T1030>>, <<T1000, T1100>>, <<T0900, T1100>>,
     <<T1000, T1000>>, <<T1000, T2400>>}

NextCreate ==
    \E u \in {"a", "l1", "s1"}, venueId \in {"V", "W"},
       dayOfWeek \in {"MONDAY", "TUESDAY"}, iv \in CreateIntervals :
        createSchedule(u, venueId, "c1", dayOfWeek, iv[1], iv[2])

SpecCreate == InitCreate /\ [][NextCreate]_vars

(***************************************************************************)
(* Properties of the stored slots.                                         *)
(***************************************************************************)
\* s1 < e2 and s2 < e1 on two rows
Overlap(s, t) ==
    StrLt(s.startTime, t.endTime) /\ StrLt(t.startTime, s.endTime)

SameVenueDay(s, t) == s.venueId = t.venueId /\ s.dayOfWeek = t.dayOfWeek

OverlappingPairs ==
    { p \in (DOMAIN schedules) \X (DOMAIN schedules) :
        /\ p[1] # p[2]
        /\ SameVenueDay(schedules[p[1]], schedules[p[2]])
        /\ Overlap(schedules[p[1]], schedules[p[2]]) }

\* C1: after every createSchedule request of a sequence executed one at a
\* time, accepted or rejected, no two stored slots of one (venueId,
\* dayOfWeek) have s.startTime < t.endTime and t.startTime < s.endTime.
C1_NoConflictAfterCreate ==
    resp.op = "createSchedule" => OverlappingPairs = {}

\* two accepted creates on one (venue, day): the second passed the query
\* against the first
C1_Witness ==
    /\ resp.op = "createSchedule" /\ resp.status = 201
    /\ \E i, j \in DOMAIN schedules :
          i # j /\ SameVenueDay(schedules[i], schedules[j])

\* the only stored slot is MONDAY [09:00,10:00) on venue V
C7_Stored ==
    /\ DOMAIN schedules = {1}
    /\ schedules[1].venueId = "V" /\ schedules[1].dayOfWeek = "MONDAY"
    /\ schedules[1].startTime = T0900 /\ schedules[1].endTime = T1000

C7_Accepted(venueId, dayOfWeek, startTime, endTime) ==
    /\ resp'.status = 201 /\ resp'.err = "none"
    /\ DOMAIN schedules' = {1, 2}
    /\ schedules'[1] = schedules[1]
    /\ schedules'[2].venueId = venueId
    /\ schedules'[2].dayOfWeek = dayOfWeek
    /\ schedules'[2].startTime = startTime
    /\ schedules'[2].endTime = endTime

C7_Scenario ==
    \A u \in {"a", "l1"} :
        /\ createSchedule(u, "V", "c1", "MONDAY", T0930, T1030)
             => /\ resp'.status = 400 /\ resp'.err = "conflict"
                /\ schedules' = schedules
        /\ createSchedule(u, "V", "c1", "MONDAY", T1000, T1100)
             => C7_Accepted("V", "MONDAY", T1000, T1100)
        /\ createSchedule(u, "W", "c1", "MONDAY", T0900, T1000)
             => C7_Accepted("W", "MONDAY", T0900, T1000)
        /\ createSchedule(u, "V", "c1", "TUESDAY", T0900, T1000)
             => C7_Accepted("V", "TUESDAY", T0900, T1000)

\* every request that would be answered with the conflict error names a
\* (venue, day) that holds a stored slot
C7_OnlySameVenueDay ==
    \A u \in {"a", "l1"}, venueId \in {"V", "W"},
       dayOfWeek \in {"MONDAY", "TUESDAY"}, iv \in CreateIntervals :
        createScheduleError(u, venueId, "c1", dayOfWeek, iv[1], iv[2])[2]
            = "conflict"
        => \E i \in DOMAIN schedules :
              /\ schedules[i].venueId = venueId
              /\ schedules[i].dayOfWeek = dayOfWeek

\* C7: createSchedule answers with the conflict error only when a stored
\* slot has the same venueId and the same dayOfWeek; and with MONDAY
\* [09:00,10:00) stored on V, MONDAY [09:30,10:30) on V is rejected and the
\* table unchanged, MONDAY [10:00,11:00) on V is accepted, and [09:00,10:00)
\* on venue W or on TUESDAY is accepted.
C7_ConflictScope ==
    /\ []C7_OnlySameVenueDay
    /\ [][C7_Stored => C7_Scenario]_vars

\* the scenario's rejection has happened: [09:00,10:00) is still the only
\* slot and the last create was answered with the conflict error
C7_Witness ==
    C7_Stored /\ resp.op = "createSchedule" /\ resp.err = "conflict"

(***************************************************************************)
(* SpecSlots: create, update and delete requests one at a time.            *)
(***************************************************************************)
InitSlots ==
    /\ users = [a |-> "ADMIN"]
    /\ venues = [V |-> "AVAILABLE", W |-> "AVAILABLE"]
    /\ courses = [c1 |-> "a"]
    /\ enrollments = {}
    /\ EmptyTables

\* the startTime and the endTime values of the requests
SlotStarts == {T0900, T1000}
SlotEnds == {T1000, T1100}

NextSlots ==
    \/ \E venueId \in {"V", "W"}, dayOfWeek \in {"MONDAY", "TUESDAY"},
          startTime \in SlotStarts, endTime \in SlotEnds :
            createSchedule("a", venueId, "c1", dayOfWeek, startTime, endTime)
    \/ \E id \in ScheduleIds, venueId \in {NoValue, "V", "W"},
          dayOfWeek \in {NoValue, "MONDAY", "TUESDAY"},
          startTime \in {NoTime} \cup SlotStarts,
          endTime \in {NoTime} \cup SlotEnds :
            updateSchedule("a", id, venueId, NoValue, dayOfWeek,
                           startTime, endTime)
    \/ \E id \in ScheduleIds : deleteSchedule("a", id)

SpecSlots == InitSlots /\ [][NextSlots]_vars

\* C4: after any sequence of createSchedule, updateSchedule and
\* deleteSchedule requests executed one at a time, no two stored slots with
\* the same venueId and dayOfWeek have overlapping [startTime, endTime).
C4_NoOverlapSameVenueDay ==
    \A i, j \in DOMAIN schedules :
        (i # j /\ SameVenueDay(schedules[i], schedules[j]))
            => ~Overlap(schedules[i], schedules[j])

\* an accepted update left two slots side by side on one (venue, day)
C4_Witness ==
    /\ resp.op = "updateSchedule" /\ resp.status = 200
    /\ \E i, j \in DOMAIN schedules :
          i # j /\ SameVenueDay(schedules[i], schedules[j])

\* C5: every stored slot has startTime < endTime.
C5_StartBeforeEnd ==
    \A i \in DOMAIN schedules :
        StrLt(schedules[i].startTime, schedules[i].endTime)

\* C6: in every state and for every update request on a stored slot, with
\* (v, d, s, e) the request's values where supplied and the stored ones
\* where omitted: the request is answered with the conflict error if
\* [s, e) overlaps a different slot on (v, d), and only if a different slot
\* is stored on (v, d); in particular a request that keeps or resubmits the
\* slot's own values is not rejected on account of the slot itself.
C6_UpdateExcludesSelf ==
    \A id \in DOMAIN schedules, venueId \in {NoValue, "V", "W"},
       dayOfWeek \in {NoValue, "MONDAY", "TUESDAY"},
       startTime \in {NoTime} \cup SlotStarts,
       endTime \in {NoTime} \cup SlotEnds :
        LET own == schedules[id]
            new == [venueId |-> IF venueId = NoValue THEN own.venueId
                                ELSE venueId,
                    dayOfWeek |-> IF dayOfWeek = NoValue THEN own.dayOfWeek
                                  ELSE dayOfWeek,
                    startTime |-> IF startTime = NoTime THEN own.startTime
                                  ELSE startTime,
                    endTime |-> IF endTime = NoTime THEN own.endTime
                                ELSE endTime]
            others == { i \in DOMAIN schedules \ {id} :
                          SameVenueDay(schedules[i], new) }
            err == updateScheduleError("a", id, venueId, NoValue, dayOfWeek,
                                       startTime, endTime)[2]
        IN  /\ (\E i \in others : Overlap(schedules[i], new))
                  => err = "conflict"
            /\ err = "conflict" => others # {}
            /\ others = {} => err = "none"

\* an update was rejected for a conflict while two slots were stored, and
\* an update of a slot was accepted while another slot shared its
\* (venue, day)
C6_Witness ==
    /\ resp.op = "updateSchedule"
    /\ Cardinality(DOMAIN schedules) = 2
    /\ resp.err = "conflict"


(***************************************************************************)
(* SpecAuth: schedule writes by several users while an administrator       *)
(* reassigns the course's lecturer.                                        *)
(***************************************************************************)
InitAuth ==
    /\ users = [a |-> "ADMIN", l1 |-> "LECTURER", l2 |-> "LECTURER"]
    /\ venues = [V |-> "AVAILABLE"]
    /\ courses = [c1 |-> "l1"]
    /\ enrollments = {}
    /\ EmptyTables

NextAuth ==
    \/ \E u \in {"a", "l1", "l2"}, iv \in {<<T0900, T1000>>, <<T1000, T1100>>} :
          createSchedule(u, "V", "c1", "MONDAY", iv[1], iv[2])
    \/ \E u \in {"a", "l1", "l2"}, id \in ScheduleIds,
          courseId \in {NoValue, "c1"}, dayOfWeek \in {NoValue, "TUESDAY"} :
          updateSchedule(u, id, NoValue, courseId, dayOfWeek, NoTime, NoTime)
    \/ \E u \in {"a", "l1", "l2"}, id \in ScheduleIds : deleteSchedule(u, id)
    \/ \E u \in {"a", "l1", "l2"}, lecturerId \in {NoValue, "l1", "l2"} :
          updateCourse(u, "c1", lecturerId)

SpecAuth == InitAuth /\ [][NextAuth]_vars

\* C8: a createSchedule, updateSchedule or deleteSchedule request is
\* accepted only when the caller is an ADMIN or is, at the time of the
\* request, the lecturer of the slot's course.
C8_OnlyLecturerOrAdmin ==
    (/\ resp.op \in {"createSchedule", "updateSchedule", "deleteSchedule"}
     /\ resp.err = "none")
        => \/ users[resp.user] = "ADMIN"
           \/ courses[resp.courseId] = resp.user

(***************************************************************************)
(* SpecRace: concurrent createSchedule and updateSchedule requests.  Each  *)
(* await of a handler is a point where another request can run; a request  *)
(* is split where the claim splits it, between its conflict query (with    *)
(* the checks before it) and its insert or update.                         *)
(***************************************************************************)
Pending(op, u, id, venueId, courseId, lecturerId, dayOfWeek, startTime, endTime) ==
    [n |-> CHOOSE k \in 1..MaxInflight :
               /\ k \notin { p.n : p \in inflight }
               /\ \A j \in 1..MaxInflight :
                     j \notin { p.n : p \in inflight } => k <= j,
     op |-> op, user |-> u, id |-> id, venueId |-> venueId,
     courseId |-> courseId, lecturerId |-> lecturerId,
     dayOfWeek |-> dayOfWeek, startTime |-> startTime, endTime |-> endTime]

\* createSchedule up to and including the conflict query (lines 11-81)
createScheduleQuery(u, venueId, courseId, dayOfWeek, startTime, endTime) ==
    LET e == createScheduleError(u, venueId, courseId, dayOfWeek,
                                 startTime, endTime)
    IN  IF e[2] # "none"
        THEN Reject("createSchedule", e[1], e[2], u, 0, courseId)
        ELSE /\ Cardinality(inflight) < MaxInflight
             /\ inflight' = inflight \cup
                    {Pending("createSchedule", u, 0, venueId, courseId,
                             courses[courseId], dayOfWeek, startTime, endTime)}
             /\ UNCHANGED <<users, venues, courses, enrollments, schedules,
                            notifications, resp, probe, emitted, calls,
                            announcements,
                            delivered, sockets, rooms, connectedUsers>>

\* createSchedule from prisma.schedule.create on (lines 83-137)
createScheduleWrite(p) ==
    LET created == notifyCourseStudents(p.courseId, "SCHEDULE_CREATED",
                       <<"New schedule added for", p.courseId, p.dayOfWeek>>,
                       <<"courses", p.courseId>>, {})
    IN  /\ p.op = "createSchedule"
        /\ ScheduleIds \ DOMAIN schedules # {}
        /\ Len(notifications) + Len(created) <= NotifCap
        /\ schedules' = (NewId :> [venueId |-> p.venueId,
                                   lecturerId |-> p.lecturerId,
                                   courseId |-> p.courseId,
                                   dayOfWeek |-> p.dayOfWeek,
                                   startTime |-> p.startTime,
                                   endTime |-> p.endTime]) @@ schedules
        /\ notifications' = notifications \o created
        /\ resp' = Response("createSchedule", 201, "none", p.user, NewId,
                            p.courseId)
        /\ inflight' = inflight \ {p}
        /\ Emit(LiveEvents("SCHEDULE_CREATED",
                           RosterStudentIds(p.courseId, {}),
                           p.courseId, courses[p.courseId]))
        /\ UNCHANGED <<users, venues, courses, enrollments, probe, calls,
                       announcements, sockets, rooms, connectedUsers>>

\* updateSchedule up to and including the conflict query (lines 320-426)
updateScheduleQuery(u, id, venueId, courseId, dayOfWeek, startTime, endTime) ==
    LET e == updateScheduleError(u, id, venueId, courseId, dayOfWeek,
                                 startTime, endTime)
    IN  IF e[2] # "none"
        THEN Reject("updateSchedule", e[1], e[2], u, id,
                    IF id \in DOMAIN schedules THEN schedules[id].courseId
                    ELSE NoValue)
        ELSE /\ Cardinality(inflight) < MaxInflight
             /\ inflight' = inflight \cup
                    {Pending("updateSchedule", u, id, venueId, courseId,
                             IF courseId # NoValue THEN courses[courseId]
                             ELSE NoValue,
                             dayOfWeek, startTime, endTime)}
             /\ UNCHANGED <<users, venues, courses, enrollments, schedules,
                            notifications, resp, probe, emitted, calls,
                            announcements,
                            delivered, sockets, rooms, connectedUsers>>

\* updateSchedule from prisma.schedule.update on (lines 428-482): updateData
\* holds the supplied fields only and is applied to the row as it is now
updateScheduleWrite(p) ==
    /\ p.op = "updateSchedule"
    /\ inflight' = inflight \ {p}
    /\ IF p.id \notin DOMAIN schedules
       THEN \* prisma.schedule.update throws: catch, next(error)
            /\ resp' = Response("updateSchedule", 500, "error", p.user, p.id,
                                NoValue)
            /\ Emit({})
            /\ UNCHANGED <<users, venues, courses, enrollments, schedules,
                           notifications, probe, calls, announcements,
                           sockets, rooms, connectedUsers>>
       ELSE LET old == schedules[p.id]
                row == [venueId |-> Resulting(p.venueId, old.venueId),
                        lecturerId |-> Resulting(p.lecturerId, old.lecturerId),
                        courseId |-> Resulting(p.courseId, old.courseId),
                        dayOfWeek |-> Resulting(p.dayOfWeek, old.dayOfWeek),
                        startTime |-> ResultingTime(p.startTime, old.startTime),
                        endTime |-> ResultingTime(p.endTime, old.endTime)]
                created ==
                    createNotification("SCHEDULE_UPDATE",
                        <<"Schedule updated for", row.courseId>>,
                        <<"schedules", p.id>>, "ALL", NoValue)
                    \o notifyCourseStudents(row.courseId, "SCHEDULE_UPDATE",
                        <<"Schedule updated for", row.courseId>>,
                        <<"courses", row.courseId>>, {})
            IN  /\ Len(notifications) + Len(created) <= NotifCap
                /\ schedules' = [schedules EXCEPT ![p.id] = row]
                /\ notifications' = notifications \o created
                /\ resp' = Response("updateSchedule", 200, "none", p.user,
                                    p.id, old.courseId)
                /\ Emit(LiveEvents("SCHEDULE_UPDATE",
                                   RosterStudentIds(row.courseId, {}),
                                   row.courseId, row.lecturerId))
                /\ UNCHANGED <<users, venues, courses, enrollments, probe,
                               calls, announcements,
                               sockets, rooms, connectedUsers>>

InitRace ==
    /\ users = [a |-> "ADMIN"]
    /\ venues = [V |-> "AVAILABLE"]
    /\ courses = [c1 |-> "a"]
    /\ enrollments = {}
    /\ EmptyTables

NextRace ==
    \/ \E iv \in {<<T0900, T1000>>, <<T0900, T1100>>, <<T1000, T1100>>} :
          createScheduleQuery("a", "V", "c1", "MONDAY", iv[1], iv[2])
    \/ \E p \in inflight : createScheduleWrite(p)
    \/ \E id \in ScheduleIds, startTime \in {NoTime, T0900},
          endTime \in {NoTime, T1100} :
          updateScheduleQuery("a", id, NoValue, NoValue, NoValue,
                              startTime, endTime)
    \/ \E p \in inflight : updateScheduleWrite(p)

SpecRace == InitRace /\ [][NextRace]_vars

\* C2: under every interleaving of concurrent createSchedule and
\* updateSchedule requests no state holds two stored slots of one
\* (venue, day) whose intervals overlap.
C2_NoDoubleBooking == OverlappingPairs = {}

(***************************************************************************)
(* SpecConflict: the conflict query applied to one stored slot and one     *)
(* candidate on the same venue and day, and again with the two swapped.    *)
(***************************************************************************)
ProbeTimes == {T0900, T0930, T1000, T1030, T1100}

OneRow(iv) ==
    (1 :> [venueId |-> "V", lecturerId |-> "l1", courseId |-> "c1",
           dayOfWeek |-> "MONDAY", startTime |-> iv[1], endTime |-> iv[2]])

InitConflict ==
    /\ users = [a |-> "ADMIN", l1 |-> "LECTURER"]
    /\ venues = [V |-> "AVAILABLE"]
    /\ courses = [c1 |-> "l1"]
    /\ enrollments = {}
    /\ schedules = << >>
    /\ notifications = << >>
    /\ resp = NoResponse
    /\ inflight = {}
    /\ emitted = {}
    /\ delivered = {}
    /\ sockets = << >>
    /\ rooms = {}
    /\ connectedUsers = [api |-> << >>, notification |-> << >>]
    /\ calls = NoCall
    /\ announcements = << >>
    /\ probe \in [op : {"input"}, cand : ProbeTimes \X ProbeTimes,
                  stored : ProbeTimes \X ProbeTimes,
                  found : {FALSE}, swapped : {FALSE}]

ProbeConflict ==
    /\ probe.op = "input"
    /\ probe' = [probe EXCEPT
          !.op = "conflictingSchedule",
          !.found = conflictingSchedule(OneRow(probe.stored), "V", "MONDAY",
                        probe.cand[1], probe.cand[2]) # {},
          !.swapped = conflictingSchedule(OneRow(probe.cand), "V", "MONDAY",
                          probe.stored[1], probe.stored[2]) # {}]
    /\ UNCHANGED <<users, venues, courses, enrollments, schedules,
                   notifications, resp, inflight, emitted, calls,
                   announcements, delivered, sockets, rooms, connectedUsers>>

NextConflict == ProbeConflict

SpecConflict == InitConflict /\ [][NextConflict]_vars

\* C3: for a candidate [s1,e1) and a stored [s2,e2) on the same venue and
\* day, both with start < end, the conflict query of createSchedule finds
\* the stored slot exactly when s1 < e2 and s2 < e1, and finds the same
\* with candidate and stored slot swapped; identical, contained and
\* partially overlapping intervals conflict, adjacent and disjoint do not.
C3_ConflictIffOverlap ==
    LET s1 == probe.cand[1]
        e1 == probe.cand[2]
        s2 == probe.stored[1]
        e2 == probe.stored[2]
    IN  (/\ probe.op = "conflictingSchedule"
         /\ StrLt(s1, e1) /\ StrLt(s2, e2))
        => /\ probe.found <=> (StrLt(s1, e2) /\ StrLt(s2, e1))
           /\ probe.found = probe.swapped
           /\ (s1 = s2 /\ e1 = e2) => probe.found
           /\ (StrLe(s2, s1) /\ StrLe(e1, e2)) => probe.found
           /\ (StrLt(s1, s2) /\ StrLt(s2, e1) /\ StrLt(e1, e2)) => probe.found
           /\ (e1 = s2 \/ e2 = s1) => ~probe.found
           /\ (StrLt(e1, s2) \/ StrLt(e2, s1)) => ~probe.found

\* the query has run on a boundary-adjacent pair and found nothing
C3_Witness ==
    /\ probe.op = "conflictingSchedule"
    /\ StrLt(probe.cand[1], probe.cand[2])
    /\ StrLt(probe.stored[1], probe.stored[2])
    /\ probe.cand[2] = probe.stored[1]
    /\ ~probe.found

(***************************************************************************)
(* SpecFanout: notifyCourseStudents on a course whose enrollment rows are  *)
(* drawn from the statuses the seed and enrollInCourse write.              *)
(***************************************************************************)
Students == {"s1", "s2", "s3", "s4"}

EnrollmentRows(status) ==
    { [courseId |-> "c1", studentId |-> st, status |-> status[st]] :
        st \in { x \in Students : status[x] # NoValue } }

InitFanout ==
    /\ users = [st \in Students |-> "STUDENT"]
    /\ venues = [V |-> "AVAILABLE"]
    /\ courses = [c1 |-> "l1"]
    /\ \E status \in [Students -> {NoValue, "ACTIVE", "COMPLETED"}] :
          enrollments = EnrollmentRows(status)
    /\ EmptyTables

\* a call of notifyCourseStudents({ courseId, type, message, link,
\* excludeStudentIds }); probe records the call and the number of rows
\* it inserted
NotifyCourseStudents(courseId, excludeStudentIds) ==
    LET created == notifyCourseStudents(courseId, "SCHEDULE_CREATED",
                       <<"New schedule added for", courseId, "MONDAY">>,
                       <<"courses", courseId>>, excludeStudentIds)
    IN  /\ Len(notifications) + Len(created) <= NotifCap
        /\ notifications' = notifications \o created
        /\ probe' = [op |-> "notifyCourseStudents", courseId |-> courseId,
                     exclude |-> excludeStudentIds, count |-> Len(created)]
        /\ UNCHANGED <<users, venues, courses, enrollments, schedules, resp,
                       inflight, emitted, calls, announcements,
                       delivered, sockets, rooms, connectedUsers>>

NextFanout ==
    \E excludeStudentIds \in SUBSET {"s1", "s2"} :
        NotifyCourseStudents("c1", excludeStudentIds)

SpecFanout == InitFanout /\ [][NextFanout]_vars

\* the students with an active enrollment on the course
ActiveStudentIds(courseId) ==
    { e.studentId : e \in { x \in enrollments :
                              x.courseId = courseId /\ x.status = "ACTIVE" } }

\* the recipients of the rows the last call inserted
LastRecipients ==
    { notifications[k].userId :
        k \in (Len(notifications) - probe.count + 1)..Len(notifications) }

\* C9: a call of notifyCourseStudents for course C creates a Notification
\* record for a student exactly when the student has an active enrollment
\* on C and is not excluded; with 3 active and 1 non-active enrollment it
\* creates exactly 3 records.
C9_OnlyActiveNotified ==
    probe.op = "notifyCourseStudents" =>
        /\ LastRecipients = ActiveStudentIds(probe.courseId) \ probe.exclude
        /\ (/\ Cardinality(ActiveStudentIds(probe.courseId)) = 3
            /\ Cardinality(enrollments) = 4
            /\ probe.exclude = {}) => probe.count = 3

\* C10: with N actively enrolled students and k of them excluded the call
\* creates exactly N-k records, one for each remaining student.
C10_RosterMinusExcluded ==
    (/\ probe.op = "notifyCourseStudents"
     /\ probe.exclude \subseteq ActiveStudentIds(probe.courseId))
        => /\ probe.count = Cardinality(ActiveStudentIds(probe.courseId))
                            - Cardinality(probe.exclude)
           /\ Cardinality(LastRecipients) = probe.count

(***************************************************************************)
(* createAnnouncement, POST /api/announcements, with the bulk              *)
(* createNotification it ends in.  A field of the body that is omitted is  *)
(* NoValue; targetAudience defaults to ALL.                                *)
(***************************************************************************)
MaxAnnouncements == 2

validateTargetAudience(audience) ==
    audience \in {"ALL", "STUDENTS", "LECTURERS"}

createAnnouncementError(u, title, targetAudience) ==
    IF ~authorize({"LECTURER", "ADMIN"}, u) THEN <<403, "forbidden">>
    ELSE IF title = NoValue THEN <<400, "validation">>
    ELSE IF ~validateTargetAudience(targetAudience)
        THEN <<400, "validation">>
    ELSE <<201, "none">>

\* the row prisma.announcement.create inserts
Announcement(id, u, title, targetAudience) ==
    [id |-> id, authorId |-> u, title |-> title,
     targetAudience |-> targetAudience]

createAnnouncement(u, title, audience) ==
    LET targetAudience == IF audience = NoValue THEN "ALL" ELSE audience
        e == createAnnouncementError(u, title, targetAudience)
        id == Len(announcements) + 1
    IN  IF e[2] # "none"
        THEN Reject("createAnnouncement", e[1], e[2], u, 0, NoValue)
        ELSE LET created ==
                     createNotification("NEW_ANNOUNCEMENT",
                         <<"New announcement:", title>>,
                         <<"announcements", id>>, targetAudience, u)
             IN  /\ Len(announcements) < MaxAnnouncements
                 /\ Len(notifications) + Len(created) <= NotifCap
                 /\ announcements' = Append(announcements,
                        Announcement(id, u, title, targetAudience))
                 /\ notifications' = notifications \o created
                 /\ resp' = Response("createAnnouncement", 201, "none", u,
                                     id, NoValue)
                 /\ Emit({})
                 /\ UNCHANGED <<users, venues, courses, enrollments,
                                schedules, inflight, probe, calls,
                                sockets, rooms, connectedUsers>>

(***************************************************************************)
(* SpecAudience: bulk createNotification calls, directly and from          *)
(* createAnnouncement, on a database with one user of each role.           *)
(***************************************************************************)
InitAudience ==
    /\ users = [a |-> "ADMIN", l1 |-> "LECTURER", s1 |-> "STUDENT"]
    /\ venues = [V |-> "AVAILABLE"]
    /\ courses = [c1 |-> "l1"]
    /\ enrollments = {}
    /\ EmptyTables

\* a call createNotification({ type, message, link, targetAudience,
\* excludeUserId }); probe records the call, the number of rows it
\* inserted and the size of the table after it
CreateNotification(targetAudience, excludeUserId) ==
    LET created == createNotification("SCHEDULE_UPDATE",
                       <<"Schedule updated for", "c1">>,
                       <<"schedules", 1>>, targetAudience, excludeUserId)
    IN  /\ Len(notifications) + Len(created) <= NotifCap
        /\ notifications' = notifications \o created
        /\ probe' = [op |-> "createNotification",
                     targetAudience |-> targetAudience,
                     excludeUserId |-> excludeUserId,
                     count |-> Len(created),
                     at |-> Len(notifications) + Len(created)]
        /\ resp' = NoResponse
        /\ UNCHANGED <<users, venues, courses, enrollments, schedules,
                       inflight, emitted, calls, announcements,
                       delivered, sockets, rooms, connectedUsers>>

NextAudience ==
    \/ \E targetAudience \in {"ALL", "STUDENTS", "LECTURERS"},
          excludeUserId \in {NoValue, "s1"} :
          CreateNotification(targetAudience, excludeUserId)
    \/ \E u \in {"l1", "s1"}, audience \in {NoValue, "LECTURERS", "STAFF"} :
          createAnnouncement(u, "t", audience)

SpecAudience == InitAudience /\ [][NextAudience]_vars

\* the users targetAudience A addresses: every user for ALL, else the users
\* of the matching role
MatchingUsers(A) ==
    { u \in DOMAIN users :
        \/ A = "ALL"
        \/ A = "STUDENTS" /\ users[u] = "STUDENT"
        \/ A = "LECTURERS" /\ users[u] = "LECTURER" }

\* the rows of the Notification table at the positions K are one row for
\* each user of R, all with the same type, message and link
OneRowEach(K, R) ==
    /\ Cardinality(K) = Cardinality(R)
    /\ { notifications[k].userId : k \in K } = R
    /\ \A j, k \in K :
          /\ notifications[j].type = notifications[k].type
          /\ notifications[j].message = notifications[k].message
          /\ notifications[j].link = notifications[k].link

\* C11: createNotification with targetAudience A and optional excludeUserId
\* x creates exactly one record for every user whose role matches A other
\* than x and none for any other user, all with the same type, message and
\* link; an audience that matches nobody creates no record and is no error
\* (the announcement is still answered 201).
C11_AudienceFanout ==
    /\ (probe.op = "createNotification" /\ probe.at = Len(notifications))
          => OneRowEach((probe.at - probe.count + 1)..probe.at,
                        MatchingUsers(probe.targetAudience)
                            \ {probe.excludeUserId})
    /\ \A n \in 1..Len(announcements) :
          OneRowEach({ k \in 1..Len(notifications) :
                         notifications[k].link = <<"announcements", n>> },
                     MatchingUsers(announcements[n].targetAudience)
                         \ {announcements[n].authorId})
    /\ (resp.op = "createAnnouncement" /\ resp.status = 201)
          => /\ resp.id = Len(announcements)
             /\ announcements[resp.id].authorId = resp.user

\* calls with and without an excluded user were made, one of an audience
\* that matches nobody, and an announcement of such an audience was stored
C11_Witness ==
    /\ probe.op = "createNotification" /\ probe.at = Len(notifications)
    /\ probe.targetAudience = "STUDENTS" /\ probe.excludeUserId = "s1"
    /\ probe.count = 0
    /\ \E k \in 1..Len(notifications) : notifications[k].userId = "a"
    /\ \E n \in 1..Len(announcements) :
          /\ announcements[n].targetAudience = "LECTURERS"
          /\ announcements[n].authorId = "l1"

(***************************************************************************)
(* Handlers step by step: the write of the mutation, then one step for     *)
(* each notification the handler sends, then the response.  calls holds    *)
(* the request being carried out; after the response it keeps the record   *)
(* of the last request with stage "answered".                              *)
(***************************************************************************)
\* one notification a handler sends: a POST / to the notification service
\* (kind "remote"), a notifyCourseStudents (kind "roster") or a bulk
\* createNotification (kind "audience") on the handler's own database
Item(kind, userId, courseId, targetAudience, type, message, link) ==
    [kind |-> kind, userId |-> userId, courseId |-> courseId,
     targetAudience |-> targetAudience, type |-> type, message |-> message,
     link |-> link]

\* the for loop of the schedule service's notifyCourseStudents: one POST
\* for each enrolled student
RosterItems(courseId, type, message, link) ==
    LET ids == SetToSeq(RosterStudentIds(courseId, {}))
    IN  [ k \in 1..Len(ids) |->
            Item("remote", ids[k], courseId, NoValue, type, message, link) ]

Call(op, remote, u, id, status, row, items, abortOnFailure, commitLast) ==
    [op |-> op, remote |-> remote, user |-> u, id |-> id, status |-> status,
     row |-> row, items |-> items, next |-> 1, failed |-> {},
     base |-> Len(notifications), abortOnFailure |-> abortOnFailure,
     commitLast |-> commitLast, stage |-> "fanout", seq |-> calls.seq + 1,
     answer |-> 0]

\* the number of requests a run of the step by step handlers makes
MaxRequests == 3

\* no request is between its steps
Idle == calls.stage = "answered" /\ calls.seq < MaxRequests

\* return next(new AppError(...)) of a handler modelled step by step
RejectCall(op, status, err, u, id) ==
    /\ resp' = Response(op, status, err, u, id, NoValue)
    /\ Emit({})
    /\ calls' = [NoCall EXCEPT !.seq = calls.seq + 1]
    /\ UNCHANGED <<users, venues, courses, enrollments, schedules,
                   notifications, inflight, probe, announcements,
                   sockets, rooms, connectedUsers>>

\* the row a createSchedule inserts
newSchedule(venueId, courseId, dayOfWeek, startTime, endTime) ==
    [venueId |-> venueId, lecturerId |-> courses[courseId],
     courseId |-> courseId, dayOfWeek |-> dayOfWeek,
     startTime |-> startTime, endTime |-> endTime]

\* a handler that sends its notifications before its write
BeginBeforeWrite(c, table) ==
    /\ calls' = c
    /\ Emit({})
    /\ UNCHANGED <<users, venues, courses, enrollments, schedules,
                   notifications, resp, inflight, probe, announcements,
                   sockets, rooms, connectedUsers>>

\* a handler that has passed its checks: the tables after its write and
\* the request record it continues with
Begin(c, table) ==
    /\ calls' = c
    /\ schedules' = table
    /\ Emit({})
    /\ UNCHANGED <<users, venues, courses, enrollments, notifications, resp,
                   inflight, probe, announcements,
                   sockets, rooms, connectedUsers>>

(***************************************************************************)
(* The schedule service (course-service/server.js 781-1341).               *)
(***************************************************************************)
svcCreateSchedule(u, venueId, courseId, dayOfWeek, startTime, endTime) ==
    LET e == createScheduleError(u, venueId, courseId, dayOfWeek,
                                 startTime, endTime)
    IN  /\ Idle
        /\ IF e[2] # "none"
           THEN RejectCall("createSchedule", e[1], e[2], u, 0)
           ELSE LET row == newSchedule(venueId, courseId, dayOfWeek,
                                       startTime, endTime)
                IN  /\ ScheduleIds \ DOMAIN schedules # {}
                    /\ Begin(Call("createSchedule", TRUE, u, NewId, 201, row,
                                  RosterItems(courseId, "SCHEDULE_CREATED",
                                      <<"New schedule added for", courseId,
                                        dayOfWeek>>,
                                      <<"courses", courseId>>),
                                  FALSE, FALSE),
                             (NewId :> row) @@ schedules)

svcUpdateSchedule(u, id, venueId, courseId, dayOfWeek, startTime, endTime) ==
    LET e == updateScheduleError(u, id, venueId, courseId, dayOfWeek,
                                 startTime, endTime)
    IN  /\ Idle
        /\ IF e[2] # "none"
           THEN RejectCall("updateSchedule", e[1], e[2], u, id)
           ELSE LET row == updatedSchedule(id, venueId, courseId, dayOfWeek,
                                           startTime, endTime)
                    message == <<"Schedule updated for", row.courseId>>
                IN  Begin(Call("updateSchedule", TRUE, u, id, 200, row,
                               <<Item("remote", NoValue, row.courseId, "ALL",
                                      "SCHEDULE_UPDATE", message,
                                      <<"schedules", id>>)>>
                               \o RosterItems(row.courseId, "SCHEDULE_UPDATE",
                                      message, <<"courses", row.courseId>>),
                               FALSE, FALSE),
                          [schedules EXCEPT ![id] = row])

svcDeleteSchedule(u, id) ==
    LET e == deleteScheduleError(u, id)
    IN  /\ Idle
        /\ IF e[2] # "none"
           THEN RejectCall("deleteSchedule", e[1], e[2], u, id)
           ELSE Begin(Call("deleteSchedule", TRUE, u, id, 200, schedules[id],
                           RosterItems(schedules[id].courseId,
                               "SCHEDULE_REMOVED",
                               <<"A schedule you were enrolled in has been removed">>,
                               <<"courses", schedules[id].courseId>>),
                           FALSE, FALSE),
                      [ i \in DOMAIN schedules \ {id} |-> schedules[i] ])

(***************************************************************************)
(* enrollInCourse of the course service, createAnnouncement of the         *)
(* announcement service and updateVenue of the venue service.              *)
(***************************************************************************)
enrollInCourseError(u, id) ==
    IF ~authorize({"STUDENT"}, u) THEN <<403, "forbidden">>
    ELSE IF id \notin DOMAIN courses THEN <<404, "notfound">>
    ELSE IF \E x \in enrollments : x.courseId = id /\ x.studentId = u
        THEN <<400, "validation">>
    ELSE <<201, "none">>

svcEnrollInCourse(u, id) ==
    LET e == enrollInCourseError(u, id)
        row == [courseId |-> id, studentId |-> u, status |-> "ACTIVE"]
    IN  /\ Idle
        /\ IF e[2] # "none"
           THEN RejectCall("enrollInCourse", e[1], e[2], u, 0)
           ELSE /\ enrollments' = enrollments \cup {row}
                /\ calls' = Call("enrollInCourse", TRUE, u, 0, 201, row,
                                 <<Item("remote", courses[id], id, NoValue,
                                        "NEW_ENROLLMENT",
                                        <<u, "enrolled in", id>>,
                                        <<"courses", id>>),
                                   Item("remote", u, id, NoValue,
                                        "COURSE_ENROLLED",
                                        <<"You have successfully enrolled in",
                                          id>>,
                                        <<"courses", id>>)>>,
                                 TRUE, FALSE)
                /\ Emit({})
                /\ UNCHANGED <<users, venues, courses, schedules,
                               notifications, resp, inflight, probe,
                               announcements, sockets, rooms, connectedUsers>>

svcCreateAnnouncement(u, title, audience) ==
    LET targetAudience == IF audience = NoValue THEN "ALL" ELSE audience
        e == createAnnouncementError(u, title, targetAudience)
        id == Len(announcements) + 1
        row == Announcement(id, u, title, targetAudience)
    IN  /\ Idle
        /\ IF e[2] # "none"
           THEN RejectCall("createAnnouncement", e[1], e[2], u, 0)
           ELSE /\ Len(announcements) < MaxAnnouncements
                /\ announcements' = Append(announcements, row)
                /\ calls' = Call("createAnnouncement", TRUE, u, id, 201, row,
                                 <<Item("remote", NoValue, NoValue,
                                        targetAudience, "NEW_ANNOUNCEMENT",
                                        <<"New announcement:", title>>,
                                        <<"announcements", id>>)>>,
                                 FALSE, FALSE)
                /\ Emit({RoomEmit("emitter", Room("process", "local"),
                                  "announcement.created",
                                  "NEW_ANNOUNCEMENT")})
                /\ UNCHANGED <<users, venues, courses, enrollments,
                               schedules, notifications, resp, inflight,
                               probe, sockets, rooms, connectedUsers>>

validateVenueStatus(status) ==
    status \in {"AVAILABLE", "OCCUPIED", "MAINTENANCE"}

updateVenueError(u, id, status) ==
    IF ~authorize({"ADMIN"}, u) THEN <<403, "forbidden">>
    ELSE IF id \notin DOMAIN venues THEN <<404, "notfound">>
    ELSE IF status # NoValue /\ ~validateVenueStatus(status)
        THEN <<400, "validation">>
    ELSE <<200, "none">>

\* the lecturers of the schedules of a venue, each once
VenueLecturerIds(id) ==
    { schedules[i].lecturerId :
        i \in { j \in DOMAIN schedules : schedules[j].venueId = id } }

\* the loop over the lecturers inside one try block: the first failed call
\* ends the loop
svcUpdateVenueOneTry(u, id, status) ==
    LET e == updateVenueError(u, id, status)
    IN  /\ Idle
        /\ IF e[2] # "none"
           THEN RejectCall("updateVenue", e[1], e[2], u, 0)
           ELSE LET ids == IF status # NoValue /\ status # venues[id]
                           THEN SetToSeq(VenueLecturerIds(id)) ELSE << >>
                    row == [venueId |-> id,
                            status |-> Resulting(status, venues[id]),
                            stored |-> venues[id]]
                IN  /\ calls' = Call("updateVenue", TRUE, u, 0, 200, row,
                                     [ k \in 1..Len(ids) |->
                                         Item("remote", ids[k], NoValue,
                                              NoValue, "VENUE_STATUS_CHANGE",
                                              <<"Venue", id,
                                                "status changed to", status>>,
                                              <<"venues", id>>) ],
                                     TRUE, TRUE)
                    /\ Emit({})
                    /\ UNCHANGED <<users, venues, courses, enrollments,
                                   schedules, notifications, resp, inflight,
                                   probe, announcements,
                                   sockets, rooms, connectedUsers>>

\* updateVenue sends its notifications before prisma.venue.update
svcUpdateVenue(u, id, status) ==
    LET e == updateVenueError(u, id, status)
    IN  /\ Idle
        /\ IF e[2] # "none"
           THEN RejectCall("updateVenue", e[1], e[2], u, 0)
           ELSE LET ids == IF status # NoValue /\ status # venues[id]
                           THEN SetToSeq(VenueLecturerIds(id)) ELSE << >>
                    row == [venueId |-> id,
                            status |-> Resulting(status, venues[id]),
                            stored |-> venues[id]]
                IN  /\ calls' = Call("updateVenue", TRUE, u, 0, 200, row,
                                     [ k \in 1..Len(ids) |->
                                         Item("remote", ids[k], NoValue,
                                              NoValue, "VENUE_STATUS_CHANGE",
                                              <<"Venue", id,
                                                "status changed to", status>>,
                                              <<"venues", id>>) ],
                                     FALSE, TRUE)
                    /\ Emit({})
                    /\ UNCHANGED <<users, venues, courses, enrollments,
                                   schedules, notifications, resp, inflight,
                                   probe, announcements,
                                   sockets, rooms, connectedUsers>>

(***************************************************************************)
(* The notification service's createNotification, POST /, and the call     *)
(* serviceRequest('notification-service', '/', ...) that reaches it.       *)
(***************************************************************************)
\* the headers of a call through serviceRequest: Content-Type and
\* X-Internal-Service; the callers pass method and data only
defaultOptions == [authorization |-> NoValue]

\* the headers of a request of a signed-in client: Bearer <token of u>
Bearer(u) == [authorization |-> u]

\* app.use(protect) in front of the routes of the notification service:
\* the status it ends the request with, 200 when it calls next()
protect(headers) ==
    IF headers.authorization = NoValue THEN 401
    ELSE IF headers.authorization = "invalid" THEN 401
    ELSE IF headers.authorization \notin DOMAIN users THEN 404
    ELSE 200

\* the status createNotification answers with and the rows it inserts
remoteCreateNotification(item) ==
    IF item.userId = NoValue THEN <<500, << >> >>
    ELSE IF item.userId \notin DOMAIN users THEN <<404, << >> >>
    ELSE <<201, <<Record(item.userId, item.type, item.message, item.link)>> >>

\* io.to(`user:${userId}`).emit('notification', notification) of POST /
ioEmit(item) ==
    RoomEmit("notification", Room("user", item.userId), "notification",
             item.type)

\* the catch around a call that re-issues it: the loop does not advance
catchNotifyErrorRetry(c) == [c EXCEPT !.failed = @ \cup {c.next}]

\* the catch around a failed call: the error is logged; inside one try
\* block the calls after the failed one are skipped
catchNotifyError(c) ==
    [c EXCEPT !.failed = @ \cup {c.next},
              !.next = IF c.abortOnFailure THEN Len(c.items) + 1
                       ELSE c.next + 1]

\* POST / of the notification service: protect, then createNotification
postNotification(headers, item) ==
    IF protect(headers) # 200 THEN <<protect(headers), << >> >>
    ELSE remoteCreateNotification(item)

\* one call of the request in progress; reachable is FALSE when the call
\* is refused or times out, and the call then has no answer (status 0)
serviceRequest(reachable) ==
    /\ calls.stage = "fanout" /\ calls.remote
    /\ calls.next <= Len(calls.items)
    /\ LET item == calls.items[calls.next]
           r == IF reachable THEN postNotification(defaultOptions, item)
                ELSE <<0, << >> >>
       IN  IF r[1] = 201
           THEN /\ Len(notifications) < NotifCap
                /\ notifications' = notifications \o r[2]
                /\ emitted' = emitted \cup {ioEmit(item)}
                /\ delivered' = delivered \cup Deliveries({ioEmit(item)})
                /\ calls' = [calls EXCEPT !.next = @ + 1, !.answer = r[1]]
           ELSE /\ calls' = [catchNotifyError(calls) EXCEPT !.answer = r[1]]
                /\ UNCHANGED <<notifications, emitted, delivered>>
    /\ UNCHANGED <<users, venues, courses, enrollments, schedules, resp,
                   inflight, probe, announcements,
                   sockets, rooms, connectedUsers>>

\* the status the handler answers with after its notifications
svcAnswerFailing(c) ==
    IF c.failed # {} THEN <<500, "error">> ELSE <<c.status, "none">>

svcAnswer(c) == <<c.status, "none">>

\* res.status(...).json(...) of a service handler; updateVenue writes the
\* venue here
svcRespond ==
    /\ calls.stage = "fanout" /\ calls.remote
    /\ calls.next > Len(calls.items)
    /\ venues' = IF calls.commitLast
                 THEN [venues EXCEPT ![calls.row.venueId] = calls.row.status]
                 ELSE venues
    /\ resp' = Response(calls.op, svcAnswer(calls)[1], svcAnswer(calls)[2],
                        calls.user, calls.id, NoValue)
    /\ calls' = [calls EXCEPT !.stage = "answered"]
    /\ UNCHANGED <<users, courses, enrollments, schedules, notifications,
                   inflight, probe, emitted, announcements,
                   delivered, sockets, rooms, connectedUsers>>

(***************************************************************************)
(* The controller's createSchedule, updateSchedule and deleteSchedule      *)
(* (part_003) step by step: the write of the slot, the inserts of          *)
(* createNotification and notifyCourseStudents, the live events and the    *)
(* response.                                                               *)
(***************************************************************************)
createScheduleCommit(u, venueId, courseId, dayOfWeek, startTime, endTime) ==
    LET e == createScheduleError(u, venueId, courseId, dayOfWeek,
                                 startTime, endTime)
    IN  /\ Idle
        /\ IF e[2] # "none"
           THEN RejectCall("createSchedule", e[1], e[2], u, 0)
           ELSE LET row == newSchedule(venueId, courseId, dayOfWeek,
                                       startTime, endTime)
                IN  /\ ScheduleIds \ DOMAIN schedules # {}
                    /\ Begin(Call("createSchedule", FALSE, u, NewId, 201,
                                  row,
                                  <<Item("roster", NoValue, courseId, NoValue,
                                         "SCHEDULE_CREATED",
                                         <<"New schedule added for",
                                           courseId, dayOfWeek>>,
                                         <<"courses", courseId>>)>>,
                                  TRUE, FALSE),
                             (NewId :> row) @@ schedules)

updateScheduleCommit(u, id, venueId, courseId, dayOfWeek, startTime, endTime) ==
    LET e == updateScheduleError(u, id, venueId, courseId, dayOfWeek,
                                 startTime, endTime)
    IN  /\ Idle
        /\ IF e[2] # "none"
           THEN RejectCall("updateSchedule", e[1], e[2], u, id)
           ELSE LET row == updatedSchedule(id, venueId, courseId, dayOfWeek,
                                           startTime, endTime)
                    message == <<"Schedule updated for", row.courseId>>
                IN  Begin(Call("updateSchedule", FALSE, u, id, 200, row,
                               <<Item("audience", NoValue, row.courseId,
                                      "ALL", "SCHEDULE_UPDATE", message,
                                      <<"schedules", id>>),
                                 Item("roster", NoValue, row.courseId,
                                      NoValue, "SCHEDULE_UPDATE", message,
                                      <<"courses", row.courseId>>)>>,
                               TRUE, FALSE),
                          [schedules EXCEPT ![id] = row])

deleteScheduleCommit(u, id) ==
    LET e == deleteScheduleError(u, id)
    IN  /\ Idle
        /\ IF e[2] # "none"
           THEN RejectCall("deleteSchedule", e[1], e[2], u, id)
           ELSE Begin(Call("deleteSchedule", FALSE, u, id, 200, schedules[id],
                           <<Item("roster", NoValue, schedules[id].courseId,
                                  NoValue, "SCHEDULE_REMOVED",
                                  <<"A schedule you were enrolled in has been removed">>,
                                  <<"courses", schedules[id].courseId>>)>>,
                           TRUE, FALSE),
                      [ i \in DOMAIN schedules \ {id} |-> schedules[i] ])

\* the rows an insert of the controller writes
ItemRows(item) ==
    IF item.kind = "roster"
    THEN notifyCourseStudents(item.courseId, item.type, item.message,
                              item.link, {})
    ELSE IF item.kind = "user"
    THEN <<Record(item.userId, item.type, item.message, item.link)>>
    ELSE createNotification(item.type, item.message, item.link,
                            item.targetAudience, NoValue)

\* an await whose failed insert is only logged: the handler goes on to its
\* live events and its response
notifyWriteLogged(ok) ==
    /\ calls.stage = "fanout" /\ ~calls.remote
    /\ calls.next <= Len(calls.items)
    /\ LET rows == ItemRows(calls.items[calls.next])
       IN  IF ok
           THEN /\ Len(notifications) + Len(rows) <= NotifCap
                /\ notifications' = notifications \o rows
                /\ calls' = [calls EXCEPT !.next = @ + 1]
           ELSE /\ calls' = [calls EXCEPT !.failed = @ \cup {calls.next},
                                          !.next = @ + 1]
                /\ UNCHANGED notifications
    /\ UNCHANGED <<users, venues, courses, enrollments, schedules, inflight,
                   probe, emitted, announcements, resp,
                   delivered, sockets, rooms, connectedUsers>>

\* one await createNotification(...) or await notifyCourseStudents(...);
\* ok is FALSE when the insert throws: the service rethrows and the
\* handler's catch passes the error to next(error)
notifyWrite(ok) ==
    /\ calls.stage = "fanout" /\ ~calls.remote
    /\ calls.next <= Len(calls.items)
    /\ LET rows == ItemRows(calls.items[calls.next])
       IN  IF ok
           THEN /\ Len(notifications) + Len(rows) <= NotifCap
                /\ notifications' = notifications \o rows
                /\ calls' = [calls EXCEPT !.next = @ + 1]
                /\ UNCHANGED resp
           ELSE /\ resp' = Response(calls.op, 500, "error", calls.user,
                                    calls.id, NoValue)
                /\ calls' = [calls EXCEPT !.failed = @ \cup {calls.next},
                                          !.stage = "answered"]
                /\ UNCHANGED notifications
    /\ UNCHANGED <<users, venues, courses, enrollments, schedules, inflight,
                   probe, emitted, announcements,
                   delivered, sockets, rooms, connectedUsers>>

\* the live events and res.status(...).json(...) of the controller
sendResponse ==
    /\ calls.stage = "fanout" /\ ~calls.remote /\ ~calls.commitLast
    /\ calls.next > Len(calls.items)
    /\ Emit(LiveEvents(calls.items[Len(calls.items)].type,
                       RosterStudentIds(calls.row.courseId, {}),
                       calls.row.courseId, calls.row.lecturerId))
    /\ resp' = Response(calls.op, calls.status, "none", calls.user, calls.id,
                        NoValue)
    /\ calls' = [calls EXCEPT !.stage = "answered"]
    /\ UNCHANGED <<users, venues, courses, enrollments, schedules,
                   notifications, inflight, probe, announcements,
                   sockets, rooms, connectedUsers>>

(***************************************************************************)
(* SpecSteps: requests to the services and to the controller, one at a     *)
(* time, each carried out step by step; every notification a handler       *)
(* sends either succeeds or fails.                                         *)
(***************************************************************************)
InitSteps ==
    /\ users = [a |-> "ADMIN", l1 |-> "LECTURER", s1 |-> "STUDENT"]
    /\ venues = [V |-> "AVAILABLE"]
    /\ courses = [c1 |-> "l1"]
    /\ enrollments = {}
    /\ EmptyTables

NextSteps ==
    \/ \E u \in {"a", "s1"}, endTime \in {T1000, T1100} :
          svcCreateSchedule(u, "V", "c1", "MONDAY", T0900, endTime)
    \/ \E id \in ScheduleIds :
          svcUpdateSchedule("l1", id, NoValue, NoValue, "TUESDAY", NoTime,
                            NoTime)
    \/ \E id \in ScheduleIds : svcDeleteSchedule("a", id)
    \/ svcEnrollInCourse("s1", "c1")
    \/ svcCreateAnnouncement("l1", "t", NoValue)
    \/ \E status \in {"AVAILABLE", "MAINTENANCE"} :
          svcUpdateVenue("a", "V", status)
    \/ \E reachable \in BOOLEAN : serviceRequest(reachable)
    \/ svcRespond
    \/ createScheduleCommit("l1", "V", "c1", "MONDAY", T1000, T1100)
    \/ \E id \in ScheduleIds :
          updateScheduleCommit("a", id, NoValue, NoValue, "TUESDAY", NoTime,
                               NoTime)
    \/ \E id \in ScheduleIds : deleteScheduleCommit("l1", id)
    \/ \E ok \in BOOLEAN : notifyWrite(ok)
    \/ sendResponse

SpecSteps == InitSteps /\ [][NextSteps]_vars

(***************************************************************************)
(* Properties of the handlers carried out step by step.                    *)
(***************************************************************************)
ScheduleOps == {"createSchedule", "updateSchedule", "deleteSchedule"}

ScheduleTypes == {"SCHEDULE_CREATED", "SCHEDULE_UPDATE", "SCHEDULE_REMOVED"}

\* the write of request c is in the tables
Committed(c) ==
    CASE c.op \in {"createSchedule", "updateSchedule"} ->
             c.id \in DOMAIN schedules /\ schedules[c.id] = c.row
      [] c.op = "deleteSchedule" -> c.id \notin DOMAIN schedules
      [] c.op = "enrollInCourse" -> c.row \in enrollments
      [] c.op = "createAnnouncement" ->
             c.id <= Len(announcements) /\ announcements[c.id] = c.row
      [] c.op = "updateVenue" -> venues[c.row.venueId] = c.row.status

\* the rows of the Notification table request c has inserted for its item i
RowsOfItem(c, i) ==
    { k \in (c.base + 1)..Len(notifications) :
        /\ notifications[k].type = c.items[i].type
        /\ notifications[k].link = c.items[i].link
        /\ c.items[i].userId \in {NoValue, notifications[k].userId} }

\* C12: when a call of a service handler (schedule, course, announcement,
\* venue) to the notification service fails, the write of the handler stays
\* in the tables and the handler answers with its success response.
C12_NotifyFailureSwallowed ==
    (calls.op # "none" /\ calls.remote /\ calls.failed # {}) =>
        /\ calls.stage = "answered" =>
              /\ resp.op = calls.op
              /\ resp.status = calls.status
              /\ resp.err = "none"
              /\ Committed(calls)
        /\ (calls.stage = "fanout" /\ ~calls.commitLast) => Committed(calls)

\* a createSchedule of the schedule service answered after a failed call
C12_Witness ==
    /\ calls.op = "createSchedule" /\ calls.remote
    /\ calls.stage = "answered"
    /\ calls.failed # {}
    /\ resp.status = 201

\* a failed call has inserted no row, and every call made is behind next
C13_FailedNotDelivered ==
    (calls.op # "none" /\ calls.remote) =>
        /\ \A i \in calls.failed : i < calls.next /\ RowsOfItem(calls, i) = {}
        /\ \A i \in 1..Len(calls.items) :
              i >= calls.next => RowsOfItem(calls, i) = {}

\* a step of a request never goes back to a call already made
C13_NoStepBack ==
    (calls.op # "none" /\ calls.remote /\ calls'.seq = calls.seq) =>
        /\ calls'.next >= calls.next
        /\ calls.failed \subseteq calls'.failed
        /\ calls'.next = calls.next =>
              /\ calls'.failed = calls.failed
              /\ notifications' = notifications

\* C13: a failed remote notify call is never re-issued: no later step
\* retries it, so the recipient of a failed call has no notification record
\* for that mutation.
C13_NoRetry == []C13_FailedNotDelivered /\ [][C13_NoStepBack]_vars

\* an updateSchedule answered after its first call failed and the handler
\* went on to the call for the enrolled student, with no record for either
C13_Witness ==
    /\ calls.op = "updateSchedule" /\ calls.remote
    /\ calls.stage = "answered"
    /\ Len(calls.items) = 2
    /\ calls.failed = {1, 2}
    /\ RowsOfItem(calls, 1) = {} /\ RowsOfItem(calls, 2) = {}

\* C14: in the controller's createSchedule, updateSchedule and
\* deleteSchedule a failure while writing the fan-out records is never
\* surfaced: the caller still receives the success response for the slot
\* change already committed.
C14_FanoutFailureNotSurfaced ==
    (calls.op # "none" /\ ~calls.remote /\ calls.stage = "answered"
     /\ calls.failed # {}) =>
        /\ resp.status = calls.status
        /\ resp.err = "none"

\* C16: no SCHEDULE_CREATED, SCHEDULE_UPDATE or SCHEDULE_REMOVED record and
\* no schedule live event is produced before the slot insert, update or
\* delete it describes has been committed.
C16_StepAfterCommit ==
    (\/ \E k \in (Len(notifications) + 1)..Len(notifications') :
           notifications'[k].type \in ScheduleTypes
     \/ \E ev \in emitted' \ emitted : ev.type \in ScheduleTypes)
        => /\ calls.op \in ScheduleOps
           /\ calls.stage = "fanout"
           /\ Committed(calls)

C16_NotifyAfterCommit == [][C16_StepAfterCommit]_vars

\* a controller request that inserted records and emitted its live events,
\* and a service request that delivered a record
C16_Witness ==
    /\ calls.op \in ScheduleOps /\ calls.stage = "answered"
    /\ \E k \in (calls.base + 1)..Len(notifications) :
          notifications[k].type \in ScheduleTypes
    /\ \E ev \in emitted : ev.type \in ScheduleTypes
    /\ ~calls.remote

(***************************************************************************)
(* SpecErrors: createSchedule, updateSchedule and deleteSchedule requests  *)
(* of the controller, one at a time, with requests that fail each check:   *)
(* a student, a lecturer of another course, a missing venue, a missing     *)
(* slot, an invalid day, an empty interval and an occupied interval.       *)
(***************************************************************************)
InitErrors ==
    /\ users = [a |-> "ADMIN", l1 |-> "LECTURER", l2 |-> "LECTURER",
                s1 |-> "STUDENT"]
    /\ venues = [V |-> "AVAILABLE"]
    /\ courses = [c1 |-> "l1"]
    /\ enrollments = {[courseId |-> "c1", studentId |-> "s1",
                       status |-> "ACTIVE"]}
    /\ EmptyTables

NextErrors ==
    \/ \E u \in {"l1", "l2", "s1"}, venueId \in {"V", "X"},
          iv \in {<<T0900, T1000>>, <<T0930, T1030>>, <<T1000, T1000>>} :
          createSchedule(u, venueId, "c1", "MONDAY", iv[1], iv[2])
    \/ \E u \in {"a", "l2"}, id \in ScheduleIds,
          dayOfWeek \in {NoValue, "TUESDAY", "FUNDAY"},
          startTime \in {NoTime, T0930} :
          updateSchedule(u, id, NoValue, NoValue, dayOfWeek, startTime,
                         NoTime)
    \/ \E u \in {"l1", "l2"}, id \in ScheduleIds : deleteSchedule(u, id)

SpecErrors == InitErrors /\ [][NextErrors]_vars

C15_RejectedStep ==
    (/\ resp'.op \in {"createSchedule", "updateSchedule", "deleteSchedule"}
     /\ resp'.status \in {400, 403, 404})
        => /\ schedules' = schedules
           /\ notifications' = notifications
           /\ Emit({})

\* C15: a createSchedule, updateSchedule or deleteSchedule request answered
\* with a validation (400), conflict (400), not-found (404) or
\* authorization (403) error leaves the stored slots unchanged, creates no
\* Notification record and emits no live event.
C15_ErrorsBlockTheWrite == [][C15_RejectedStep]_vars

\* a request answered "conflict" on tables that hold slots and records
C15_Witness ==
    /\ resp.status = 400 /\ resp.err = "conflict"
    /\ resp.op = "updateSchedule"
    /\ Cardinality(DOMAIN schedules) = 2
    /\ notifications # << >>
    /\ emitted = {}

(***************************************************************************)
(* The notification API: the helpers of the in-process notification        *)
(* service, the controller that calls them (/api/notifications) and the    *)
(* handlers of the notification service.  The id of a Notification is its  *)
(* position in the table.                                                  *)
(***************************************************************************)
\* an update that flips the flag
markAsReadToggle(table, id) == [table EXCEPT ![id].read = ~@]

\* prisma.notification.update({ where: { id }, data: { read: true } })
markAsRead(table, id) == [table EXCEPT ![id].read = TRUE]

\* an updateMany without the userId of the where clause
UnreadOfAnyUser(table, userId) ==
    { k \in 1..Len(table) : ~table[k].read }

\* the rows where: { userId, read: false } selects
UnreadOf(table, userId) ==
    { k \in 1..Len(table) : table[k].userId = userId /\ ~table[k].read }

\* prisma.notification.updateMany({ where: { userId, read: false },
\*                                  data: { read: true } })
markAllAsRead(table, userId) ==
    [ k \in 1..Len(table) |->
        IF k \in UnreadOf(table, userId)
        THEN [table[k] EXCEPT !.read = TRUE] ELSE table[k] ]

\* a where clause that leaves out userId
WhereAnyUser(table, userId, unreadOnly) ==
    { k \in 1..Len(table) : unreadOnly => ~table[k].read }

\* where = { userId }, with read: false added when unreadOnly is set
Where(table, userId, unreadOnly) ==
    { k \in 1..Len(table) :
        /\ table[k].userId = userId
        /\ unreadOnly => ~table[k].read }

\* orderBy: { createdAt: 'desc' }: the orders the database may return the
\* rows K in; rows of equal createdAt come in any order
RECURSIVE OrderByCreatedAtDesc(_, _)
OrderByCreatedAtDesc(table, K) ==
    IF K = {} THEN { << >> }
    ELSE UNION { { <<k>> \o rest :
                     rest \in OrderByCreatedAtDesc(table, K \ {k}) } :
                 k \in { j \in K : \A i \in K :
                           table[i].createdAt <= table[j].createdAt } }

\* take: n
Take(rows, n) == SubSeq(rows, 1, IF n < Len(rows) THEN n ELSE Len(rows))

\* getUserNotifications(userId, unreadOnly): the results it may return
getUserNotifications(table, userId, unreadOnly) ==
    OrderByCreatedAtDesc(table, Where(table, userId, unreadOnly))

\* the limit of the notification service when the query has none
DefaultLimit == 50

Listing(op, u, unreadOnly, limit, data) ==
    /\ probe' = [op |-> op, userId |-> u, unreadOnly |-> unreadOnly,
                 limit |-> limit, data |-> data]
    /\ resp' = Response(op, 200, "none", u, 0, NoValue)
    /\ Emit({})
    /\ UNCHANGED <<users, venues, courses, enrollments, schedules,
                   notifications, inflight, calls, announcements,
                   sockets, rooms, connectedUsers>>

\* GET /api/notifications?unread=...
getNotifications(u, unreadOnly) ==
    \E data \in getUserNotifications(notifications, u, unreadOnly) :
        Listing("getUserNotifications", u, unreadOnly, DefaultLimit, data)

\* GET / of the notification service, ?unreadOnly=...&limit=...
svcGetNotifications(u, unreadOnly, limit) ==
    \E data \in getUserNotifications(notifications, u, unreadOnly) :
        Listing("getNotifications", u, unreadOnly, limit, Take(data, limit))

\* the response of a request that marks records, and the table it leaves
Marked(op, status, err, u, id, table, count) ==
    /\ notifications' = table
    /\ resp' = Response(op, status, err, u, id, NoValue)
    /\ probe' = [op |-> op, userId |-> u, count |-> count]
    /\ Emit({})
    /\ UNCHANGED <<users, venues, courses, enrollments, schedules, inflight,
                   calls, announcements, sockets, rooms, connectedUsers>>

\* PUT /api/notifications/:id/read: markAsRead(id), no look at the owner;
\* the update of a missing id throws and is answered 500
markNotificationAsRead(u, id) ==
    IF id \notin 1..Len(notifications)
    THEN Marked("markNotificationAsRead", 500, "error", u, id,
                notifications, 0)
    ELSE Marked("markNotificationAsRead", 200, "none", u, id,
                markAsRead(notifications, id), 1)

\* PUT /:id/read of the notification service: findFirst({ id, userId })
svcMarkNotificationAsRead(u, id) ==
    IF ~(id \in 1..Len(notifications) /\ notifications[id].userId = u)
    THEN Marked("svcMarkNotificationAsRead", 404, "notfound", u, id,
                notifications, 0)
    ELSE Marked("svcMarkNotificationAsRead", 200, "none", u, id,
                markAsRead(notifications, id), 1)

\* PUT /api/notifications/read-all and PUT /read/all of the notification
\* service; count is the count updateMany returns
markAllNotificationsAsRead(u) ==
    Marked("markAllNotificationsAsRead", 200, "none", u, 0,
           markAllAsRead(notifications, u),
           Cardinality(UnreadOf(notifications, u)))

(***************************************************************************)
(* SpecInbox: notifications created by bulk createNotification calls and   *)
(* by announcements, read and listed by their recipients and by other      *)
(* users.                                                                  *)
(***************************************************************************)
InitInbox ==
    /\ users = [l1 |-> "LECTURER", s1 |-> "STUDENT"]
    /\ venues = [V |-> "AVAILABLE"]
    /\ courses = [c1 |-> "l1"]
    /\ enrollments = {[courseId |-> "c1", studentId |-> "s1",
                       status |-> "ACTIVE"]}
    /\ EmptyTables

NextInbox ==
    \/ CreateNotification("ALL", NoValue)
    \/ createAnnouncement("l1", "t", "STUDENTS")
    \/ \E u \in {"l1", "s1"}, id \in 1..(NotifCap + 1) :
          \/ markNotificationAsRead(u, id)
          \/ svcMarkNotificationAsRead(u, id)
    \/ \E u \in {"l1", "s1"} : markAllNotificationsAsRead(u)
    \/ \E u \in {"l1", "s1"}, unreadOnly \in BOOLEAN :
          \/ getNotifications(u, unreadOnly)
          \/ \E limit \in {DefaultLimit, 1} :
                svcGetNotifications(u, unreadOnly, limit)

SpecInbox == InitInbox /\ [][NextInbox]_vars

(***************************************************************************)
(* SpecLifecycle: the requests that write the Notification table, in any   *)
(* order: schedule changes, announcements, a course update and the         *)
(* requests that mark records as read.                                     *)
(***************************************************************************)
NextLifecycle ==
    \/ createSchedule("l1", "V", "c1", "MONDAY", T0900, T1000)
    \/ \E id \in ScheduleIds :
          updateSchedule("l1", id, NoValue, NoValue, "TUESDAY", NoTime,
                         NoTime)
    \/ \E id \in ScheduleIds : deleteSchedule("l1", id)
    \/ createAnnouncement("l1", "t", "STUDENTS")
    \/ updateCourse("l1", "c1", NoValue)
    \/ \E id \in 1..NotifCap :
          \/ markNotificationAsRead("l1", id)
          \/ svcMarkNotificationAsRead("s1", id)
    \/ markAllNotificationsAsRead("l1")

SpecLifecycle == InitInbox /\ [][NextLifecycle]_vars

(***************************************************************************)
(* Properties of the notification API.                                     *)
(***************************************************************************)
\* C17: marking a single notification as read fails (NotFound/Forbidden)
\* and leaves the record unchanged whenever the recipient of the
\* notification is not the caller; a caller flips the read flag only of
\* notifications addressed to the caller.
C17_MarkReadOwnerOnly ==
    [][(/\ resp'.op \in {"markNotificationAsRead",
                         "svcMarkNotificationAsRead"}
        /\ resp'.id \in 1..Len(notifications)
        /\ notifications[resp'.id].userId # resp'.user)
          => /\ resp'.status \in {403, 404}
             /\ notifications' = notifications]_vars

C18_MarkAllStep ==
    resp'.op = "markAllNotificationsAsRead" =>
        LET u == resp'.user
        IN  /\ resp'.status = 200
            /\ Len(notifications') = Len(notifications)
            /\ \A k \in 1..Len(notifications) :
                  notifications'[k] =
                      IF notifications[k].userId = u
                      THEN [notifications[k] EXCEPT !.read = TRUE]
                      ELSE notifications[k]
            /\ probe'.count =
                   Cardinality({ k \in 1..Len(notifications) :
                                   /\ notifications[k].userId = u
                                   /\ ~notifications[k].read })
            /\ (resp.op = "markAllNotificationsAsRead" /\ resp.user = u)
                  => /\ probe'.count = 0
                     /\ notifications' = notifications

\* C18: markAllAsRead(u) run twice in succession: the first call sets read
\* on all and only the unread records of u and returns their number, the
\* second call changes nothing, returns 0 and does not fail; the records of
\* other users are unchanged by both calls.
C18_MarkAllIdempotent == [][C18_MarkAllStep]_vars

\* s1 has marked all: nothing of s1 is unread, a record of l1 still is
C18_Witness ==
    /\ resp.op = "markAllNotificationsAsRead" /\ resp.user = "s1"
    /\ probe.count = 0
    /\ \E k \in 1..Len(notifications) :
          notifications[k].userId = "s1" /\ notifications[k].read
    /\ \E k \in 1..Len(notifications) :
          notifications[k].userId = "l1" /\ ~notifications[k].read

C19_RecordStep ==
    /\ Len(notifications') >= Len(notifications)
    /\ \A k \in 1..Len(notifications) :
          /\ notifications'[k].userId = notifications[k].userId
          /\ notifications'[k].type = notifications[k].type
          /\ notifications'[k].message = notifications[k].message
          /\ notifications'[k].link = notifications[k].link
          /\ notifications[k].read => notifications'[k].read

\* C19: after a Notification record is created the only change an
\* operation makes to it is read false -> true: once read it stays read,
\* its recipient, type, message and link never change and it is never
\* deleted.
C19_ReadMonotonic == [][C19_RecordStep]_vars

\* a schedule was deleted and an announcement made after a record was read
C19_Witness ==
    /\ resp.op = "deleteSchedule" /\ resp.status = 200
    /\ announcements # << >>
    /\ \E k \in 1..Len(notifications) : notifications[k].read
    /\ \E k \in 1..Len(notifications) : ~notifications[k].read

\* C20: listing the notifications of caller u returns only records whose
\* recipient is u, ordered by creation time descending; with unreadOnly
\* only unread records; with a limit n at most the n newest matching
\* records.
C20_Listing ==
    (resp.op \in {"getNotifications", "getUserNotifications"}
     /\ probe.op = resp.op) =>
        LET d == probe.data
            listed == { d[i] : i \in 1..Len(d) }
        IN  /\ \A i \in 1..Len(d) :
                  /\ d[i] \in 1..Len(notifications)
                  /\ notifications[d[i]].userId = resp.user
                  /\ probe.unreadOnly => ~notifications[d[i]].read
            /\ \A i, j \in 1..Len(d) :
                  i < j => /\ d[i] # d[j]
                           /\ notifications[d[i]].createdAt
                                  >= notifications[d[j]].createdAt
            /\ Len(d) <= probe.limit
            /\ \A k \in 1..Len(notifications) :
                  (/\ k \notin listed
                   /\ notifications[k].userId = resp.user
                   /\ probe.unreadOnly => ~notifications[k].read)
                      => /\ Len(d) = probe.limit
                         /\ \A i \in 1..Len(d) :
                               notifications[k].createdAt
                                   <= notifications[d[i]].createdAt

\* a listing with unreadOnly and limit 1 that left out an older unread
\* record, a read record and a record of another user
C20_Witness ==
    /\ resp.op = "getNotifications" /\ probe.op = "getNotifications"
    /\ probe.unreadOnly /\ probe.limit = 1 /\ Len(probe.data) = 1
    /\ \E k \in 1..Len(notifications) :
          /\ notifications[k].userId = resp.user
          /\ ~notifications[k].read
          /\ notifications[k].createdAt
                 < notifications[probe.data[1]].createdAt
    /\ \E k \in 1..Len(notifications) :
          notifications[k].userId = resp.user /\ notifications[k].read
    /\ \E k \in 1..Len(notifications) : notifications[k].userId # resp.user

(***************************************************************************)
(* Properties of the calls to the notification service.                    *)
(***************************************************************************)
\* the step is one call through serviceRequest
NotifyCallStep ==
    /\ calls.stage = "fanout" /\ calls.remote
    /\ calls'.stage = "fanout"
    /\ calls' # calls

\* the users the request of a call addresses
Addressed(item) ==
    IF item.userId # NoValue THEN {item.userId}
    ELSE AudienceUserIds(item.targetAudience, NoValue)

\* C27: when the notification service is up and reachable, every notify
\* request a service sends to it through serviceRequest, with a userId or
\* with a targetAudience, is accepted and leaves the Notification record(s)
\* of the recipients it resolves to.
C27_ServiceCallStep ==
    (NotifyCallStep /\ calls'.answer # 0) =>
        /\ calls'.answer = 201
        /\ calls.next \notin calls'.failed
        /\ Len(notifications') > Len(notifications)
        /\ \A k \in (Len(notifications) + 1)..Len(notifications') :
              /\ notifications'[k].userId
                     \in Addressed(calls.items[calls.next])
              /\ notifications'[k].type = calls.items[calls.next].type

C27_ReachableCallAccepted == [][C27_ServiceCallStep]_vars

(***************************************************************************)
(* Properties of the records of one update.                                *)
(***************************************************************************)
\* C28: one accepted updateSchedule creates at most one Notification
\* record for each user: no user receives two SCHEDULE_UPDATE records for
\* the same update.
C28_UpdateStep ==
    (resp'.op = "updateSchedule" /\ resp'.status = 200) =>
        \A j, k \in (Len(notifications) + 1)..Len(notifications') :
            (/\ j # k
             /\ notifications'[j].type = "SCHEDULE_UPDATE"
             /\ notifications'[k].type = "SCHEDULE_UPDATE")
                => notifications'[j].userId # notifications'[k].userId

C28_OneRecordPerUser == [][C28_UpdateStep]_vars

(***************************************************************************)
(* The Socket.IO servers: socketHandler of the API process (part_012,      *)
(* server "api") and the server of the notification service (server        *)
(* "notification").  A socket is named by its position in sockets.  A      *)
(* handshake token is NoValue when none is presented, "invalid" when       *)
(* jwt.verify throws, and otherwise the user id it was signed for.         *)
(***************************************************************************)
\* the number of sockets opened in a run
MaxSockets == 2

\* a middleware that trusts the decoded id without looking the user up
authenticateNoLookup(token) ==
    IF token = NoValue THEN "No token provided"
    ELSE IF token = "invalid" THEN "Invalid token"
    ELSE "none"

\* io.use: the error the middleware passes to next(), "none" for next()
authenticate(token) ==
    IF token = NoValue THEN "No token provided"
    ELSE IF token = "invalid" THEN "Invalid token"
    ELSE IF token \notin DOMAIN users THEN "User not found"
    ELSE "none"

\* the socket after the handshake: rejected, or carrying the user read by
\* the middleware; stage is the point its connection handler has reached
Socket(io, token, stage) ==
    IF authenticate(token) # "none"
    THEN [io |-> io, token |-> token, userId |-> NoValue, role |-> NoValue,
          stage |-> "rejected", connected |-> FALSE]
    ELSE [io |-> io, token |-> token, userId |-> token,
          role |-> IF token \in DOMAIN users THEN users[token] ELSE NoValue,
          stage |-> stage, connected |-> TRUE]

\* connectedUsers.set(key, value)
MapSet(map, key, value) == (key :> value) @@ map

\* connectedUsers.delete(key)
MapDelete(map, key) == [ k \in DOMAIN map \ {key} |-> map[k] ]

\* socket.emit('connected', ...): sent to the socket itself while it is
\* connected
Confirmation(id, connected) ==
    IF connected
    THEN {[conn |-> id, event |-> "connected", type |-> "connected",
           room |-> Room("socket", "self")]}
    ELSE {}

\* the connection handler awaits a lookup for a student and a lecturer
\* only; for any other role it runs to its end at once
awaitsLookup(token) ==
    token \in DOMAIN users /\ users[token] \in {"STUDENT", "LECTURER"}

\* a handshake with the API server and its connection handler up to the
\* awaited course lookup, or to its end when it awaits none: the presence
\* entry, the role room, the user room
connection(token) ==
    /\ Len(sockets) < MaxSockets
    /\ LET id == Len(sockets) + 1
           socket == Socket("api", token,
                            IF awaitsLookup(token) THEN "lookup"
                            ELSE "joined")
       IN  /\ sockets' = Append(sockets, socket)
           /\ IF socket.stage = "rejected"
              THEN UNCHANGED <<rooms, connectedUsers>>
              ELSE /\ connectedUsers' =
                         [connectedUsers EXCEPT
                            !.api = MapSet(@, socket.userId, id)]
                   /\ rooms' = rooms \cup
                         {<<Room("role", socket.role), id>>,
                          <<Room("user", socket.userId), id>>}
           /\ delivered' = Confirmation(id, socket.stage = "joined")
    /\ emitted' = {}
    /\ UNCHANGED <<users, venues, courses, enrollments, schedules,
                   notifications, resp, inflight, probe, calls,
                   announcements>>

\* the courses the lookup of the connection handler returns
courseIds(userId, role) ==
    IF role = "STUDENT"
    THEN { e.courseId : e \in { x \in enrollments : x.studentId = userId } }
    ELSE IF role = "LECTURER"
    THEN { c \in DOMAIN courses : courses[c] = userId }
    ELSE {}

\* the rest of the connection handler, run when the awaited lookup
\* returns (ok) or throws (~ok, caught and logged): the course rooms, the
\* confirmation, and the registration of the disconnect handler.  join on
\* a socket that has disconnected meanwhile still adds it to the room.
joinCourseRooms(id, ok) ==
    /\ id \in DOMAIN sockets
    /\ sockets[id].io = "api" /\ sockets[id].stage = "lookup"
    /\ rooms' = rooms \cup
          (IF ok
           THEN { <<Room("course", c), id>> :
                    c \in courseIds(sockets[id].userId, sockets[id].role) }
           ELSE {})
    /\ sockets' = [sockets EXCEPT ![id].stage = "joined"]
    /\ emitted' = {}
    /\ delivered' = Confirmation(id, sockets[id].connected)
    /\ UNCHANGED <<users, venues, courses, enrollments, schedules,
                   notifications, resp, inflight, probe, calls,
                   announcements, connectedUsers>>

\* a handshake with the server of the notification service and its
\* connection handler, which awaits nothing
svcConnection(token) ==
    /\ Len(sockets) < MaxSockets
    /\ LET id == Len(sockets) + 1
           socket == Socket("notification", token, "joined")
       IN  /\ sockets' = Append(sockets, socket)
           /\ IF socket.stage = "rejected"
              THEN /\ UNCHANGED <<rooms, connectedUsers>>
                   /\ delivered' = {}
              ELSE /\ connectedUsers' =
                         [connectedUsers EXCEPT
                            !.notification = MapSet(@, socket.userId, id)]
                   /\ rooms' = rooms \cup
                         {<<Room("user", socket.userId), id>>,
                          <<Room("role", socket.role), id>>}
                   /\ delivered' = Confirmation(id, TRUE)
    /\ emitted' = {}
    /\ UNCHANGED <<users, venues, courses, enrollments, schedules,
                   notifications, resp, inflight, probe, calls,
                   announcements>>

\* the socket closes: the server takes it out of its rooms and fires
\* 'disconnect'; the handler that deletes the presence entry of the user
\* runs if the connection handler has registered it by then
disconnect(id) ==
    /\ id \in DOMAIN sockets
    /\ sockets[id].connected
    /\ sockets' = [sockets EXCEPT ![id].connected = FALSE]
    /\ rooms' = { p \in rooms : p[2] # id }
    /\ connectedUsers' =
          IF sockets[id].stage = "joined"
          THEN [connectedUsers EXCEPT
                  ![sockets[id].io] = MapDelete(@, sockets[id].userId)]
          ELSE connectedUsers
    /\ emitted' = {}
    /\ delivered' = {}
    /\ UNCHANGED <<users, venues, courses, enrollments, schedules,
                   notifications, resp, inflight, probe, calls,
                   announcements>>

\* emitToUser
emitToUser(userId, event) ==
    {RoomEmit("api", Room("user", userId), event, event)}

\* emitToRole
emitToRole(role, event) ==
    {RoomEmit("api", Room("role", role), event, event)}

\* emitToAll
emitToAll(event) == {RoomEmit("api", AllSockets, event, event)}

\* emitToCourse
emitToCourse(courseId, event) ==
    IF courseId = NoValue THEN {}
    ELSE {RoomEmit("api", Room("course", courseId), event, event)}

\* broadcastAnnouncement
broadcastAnnouncement(targetAudience) ==
    IF targetAudience = "ALL"
    THEN {RoomEmit("api", AllSockets, "new-announcement", targetAudience)}
    ELSE IF targetAudience = "STUDENTS"
    THEN {RoomEmit("api", Room("role", "STUDENT"), "new-announcement",
                   targetAudience)}
    ELSE IF targetAudience = "LECTURERS"
    THEN {RoomEmit("api", Room("role", "LECTURER"), "new-announcement",
                   targetAudience)}
    ELSE {}

\* broadcastVenueChange
broadcastVenueChange == {RoomEmit("api", AllSockets, "venue-change",
                                  "venue-change")}

\* a sender that also keeps the packets of its last call for later joiners
SendQueued(E) ==
    /\ emitted' = E
    /\ delivered' = delivered \cup Deliveries(E)
    /\ UNCHANGED <<users, venues, courses, enrollments, schedules,
                   notifications, resp, inflight, probe, calls,
                   announcements, sockets, rooms, connectedUsers>>

\* one call of a function of the socket API
Send(E) ==
    /\ Emit(E)
    /\ UNCHANGED <<users, venues, courses, enrollments, schedules,
                   notifications, resp, inflight, probe, calls,
                   announcements, sockets, rooms, connectedUsers>>

\* isUserOnline
isUserOnline(io, userId) == userId \in DOMAIN connectedUsers[io]

\* getConnectedUsersCount
getConnectedUsersCount(io) == Cardinality(DOMAIN connectedUsers[io])

(***************************************************************************)
(* SpecSockets: handshakes with both servers, with and without a valid     *)
(* credential, disconnects at any point, and calls of the socket API.      *)
(***************************************************************************)
InitSockets ==
    /\ users = [a |-> "ADMIN", l1 |-> "LECTURER", s1 |-> "STUDENT",
                s2 |-> "STUDENT"]
    /\ venues = [V |-> "AVAILABLE"]
    /\ courses = [c1 |-> "l1"]
    /\ enrollments = {[courseId |-> "c1", studentId |-> "s1",
                       status |-> "ACTIVE"],
                      [courseId |-> "c1", studentId |-> "s2",
                       status |-> "COMPLETED"]}
    /\ EmptyTables

\* the tokens presented: none, one that does not verify, one of a user
\* that has been deleted, and those of the four users
Tokens == {NoValue, "invalid", "ghost", "a", "l1", "s1", "s2"}

NextSockets ==
    \/ \E token \in Tokens : connection(token)
    \/ \E id \in 1..MaxSockets, ok \in BOOLEAN : joinCourseRooms(id, ok)
    \/ \E token \in {NoValue, "invalid", "ghost", "l1", "s1"} :
          svcConnection(token)
    \/ \E id \in 1..MaxSockets : disconnect(id)
    \/ \E userId \in {"l1", "s1"} : Send(emitToUser(userId, "notification"))
    \/ \E role \in {"ADMIN", "STUDENT"} : Send(emitToRole(role, "notice"))
    \/ Send(emitToAll("notice"))
    \/ \E courseId \in {"c1", NoValue} :
          Send(emitToCourse(courseId, "schedule-update"))
    \/ Send(broadcastScheduleUpdate("c1", "l1", "SCHEDULE_UPDATE"))
    \/ \E audience \in {"ALL", "STUDENTS", "LECTURERS"} :
          Send(broadcastAnnouncement(audience))
    \/ Send(broadcastVenueChange)

SpecSockets == InitSockets /\ [][NextSockets]_vars

(***************************************************************************)
(* Properties of the socket servers.                                       *)
(***************************************************************************)
\* the rooms a socket is a member of
RoomsOf(id) == { p[1] : p \in { q \in rooms : q[2] = id } }

\* the socket has an entry of its own in a presence table
HasPresence(id) ==
    \E io \in DOMAIN connectedUsers :
        \E u \in DOMAIN connectedUsers[io] : connectedUsers[io][u] = id

\* the handshake presented no credential, one that does not verify, or one
\* of a user that does not exist
BadCredential(id) ==
    \/ sockets[id].token \in {NoValue, "invalid"}
    \/ sockets[id].token \notin DOMAIN users

C22_Rejected ==
    \A id \in DOMAIN sockets :
        BadCredential(id) =>
            /\ sockets[id].stage = "rejected"
            /\ ~sockets[id].connected
            /\ RoomsOf(id) = {}
            /\ ~HasPresence(id)

C22_Terminal ==
    \A id \in DOMAIN sockets :
        sockets[id].stage = "rejected" =>
            /\ id \in DOMAIN sockets'
            /\ sockets'[id] = sockets[id]

\* C22: a connection that presents no credential, an invalid credential or
\* the credential of a user that does not exist is rejected; in no
\* reachable state is it a member of a room or present in the presence
\* table, and it stays rejected.
C22_BadCredentialRejected == []C22_Rejected /\ [][C22_Terminal]_vars

\* the token of a deleted user was rejected and a later handshake with a
\* good token has joined
C22_Witness ==
    /\ Len(sockets) = 2
    /\ sockets[1].token = "ghost" /\ sockets[1].stage = "rejected"
    /\ sockets[2].stage = "joined" /\ sockets[2].connected
    /\ RoomsOf(2) # {} /\ HasPresence(2)

\* the courses a user is currently enrolled in (student) or teaches
\* (lecturer)
CurrentCourses(userId, role) ==
    IF role = "STUDENT"
    THEN { e.courseId : e \in { x \in enrollments :
                                  /\ x.studentId = userId
                                  /\ x.status = "ACTIVE" } }
    ELSE IF role = "LECTURER"
    THEN { c \in DOMAIN courses : courses[c] = userId }
    ELSE {}

\* C23: once an authenticated connection of user u with role r has
\* finished joining, it is a member of exactly the rooms user:<u>,
\* role:<r> and course:<c> for every course c that u is enrolled in
\* (student) or teaches (lecturer), and of no other room.
C23_ExactRooms ==
    \A id \in DOMAIN sockets :
        (sockets[id].stage = "joined" /\ sockets[id].connected) =>
            RoomsOf(id) =
                {Room("user", sockets[id].userId),
                 Room("role", sockets[id].role)}
                \cup { Room("course", c) :
                         c \in CurrentCourses(sockets[id].userId,
                                              sockets[id].role) }

\* C24: after a connection has disconnected, at whatever point of its
\* connect sequence, it is a member of no room, its presence entry is gone
\* and no emit is delivered to it.
C24_GoneAfterDisconnect ==
    \A id \in DOMAIN sockets :
        (sockets[id].stage # "rejected" /\ ~sockets[id].connected) =>
            /\ RoomsOf(id) = {}
            /\ ~HasPresence(id)
            /\ \A d \in delivered : d.conn # id

\* the sockets an emit is due to at the moment of the call
DueTo(ev) ==
    { c \in DOMAIN sockets :
        /\ sockets[c].io = ev.io
        /\ sockets[c].connected
        /\ (ev.to = AllSockets \/ ev.to \in RoomsOf(c)) }

C26_EmitStep ==
    /\ emitted' # {} =>
          /\ \A ev \in emitted', c \in DOMAIN sockets :
                (c \in DueTo(ev)) <=>
                    ([conn |-> c, event |-> ev.event, type |-> ev.type,
                      room |-> ev.to] \in delivered')
          /\ \A d \in delivered' :
                \E ev \in emitted' :
                    /\ d.event = ev.event /\ d.room = ev.to
                    /\ d.type = ev.type /\ d.conn \in DueTo(ev)
          /\ UNCHANGED <<sockets, rooms, connectedUsers, notifications>>
    /\ emitted' = {} =>
          \A d \in delivered' :
              /\ d.event = "connected"
              /\ d.conn \in DOMAIN sockets' \ DOMAIN sockets
                 \/ sockets[d.conn].stage = "lookup"

\* C26: an emit to a user, role or course room or to all is delivered once
\* to the connections that are members at the moment of the emit and is
\* never queued or retried for connections that join later; an emit to a
\* room with no member delivers nothing; no emit changes the presence
\* table, a room membership or a Notification record.
C26_FireAndForget == [][C26_EmitStep]_vars

\* an emit to course:c1 reached the enrolled student's socket and not the
\* admin's socket
C26_Witness ==
    /\ Len(sockets) = 2
    /\ sockets[1].userId = "s1" /\ sockets[1].connected
    /\ sockets[2].userId = "a" /\ sockets[2].connected
    /\ emitted = emitToCourse("c1", "schedule-update")
    /\ \E d \in delivered : d.conn = 1
    /\ \A d \in delivered : d.conn # 2

\* C29: for one call of broadcastScheduleUpdate every live connection
\* receives the schedule-update event at most once, whatever combination
\* of the course room, the lecturer's user room and the ADMIN role room it
\* belongs to.
C29_AtMostOncePerSocket ==
    (\E ev \in emitted : ev.event = "schedule-update") =>
        \A id \in DOMAIN sockets :
            Cardinality({ d \in delivered :
                            d.conn = id /\ d.event = "schedule-update" }) <= 1

\* C30: after any sequence of connects and disconnects, isUserOnline(u) is
\* true exactly when u has an authenticated connection that has not
\* disconnected, and getConnectedUsersCount() is the number of such users.
C30_PresenceIsLiveness ==
    \A io \in DOMAIN connectedUsers :
        LET live == { u \in DOMAIN users :
                        \E id \in DOMAIN sockets :
                            /\ sockets[id].io = io
                            /\ sockets[id].userId = u
                            /\ sockets[id].stage # "rejected"
                            /\ sockets[id].connected }
        IN  /\ \A u \in DOMAIN users : isUserOnline(io, u) <=> (u \in live)
            /\ getConnectedUsersCount(io) = Cardinality(live)

(***************************************************************************)
(* dropCourse of the course service, DELETE /:id/enroll.                   *)
(***************************************************************************)
dropCourseError(u, id) ==
    IF users[u] # "STUDENT" THEN <<403, "forbidden">>
    ELSE IF ~\E x \in enrollments : x.courseId = id /\ x.studentId = u
        THEN <<400, "validation">>
    ELSE <<200, "none">>

\* a drop that also takes the open sockets of the student out of the
\* course room
dropCourseLeavingRoom(u, id) ==
    /\ Idle
    /\ dropCourseError(u, id)[2] = "none"
    /\ enrollments' = { x \in enrollments :
                          ~(x.courseId = id /\ x.studentId = u) }
    /\ rooms' = { p \in rooms :
                    ~(p[1] = Room("course", id)
                      /\ sockets[p[2]].userId = u) }
    /\ resp' = Response("dropCourse", 200, "none", u, 0, id)
    /\ calls' = [NoCall EXCEPT !.seq = calls.seq + 1]
    /\ Emit({})
    /\ UNCHANGED <<users, venues, courses, schedules, notifications,
                   inflight, probe, announcements, sockets, connectedUsers>>

dropCourse(u, id) ==
    LET e == dropCourseError(u, id)
    IN  /\ Idle
        /\ IF e[2] # "none"
           THEN RejectCall("dropCourse", e[1], e[2], u, 0)
           ELSE /\ enrollments' = { x \in enrollments :
                                      ~(x.courseId = id /\ x.studentId = u) }
                /\ resp' = Response("dropCourse", 200, "none", u, 0, id)
                /\ calls' = [NoCall EXCEPT !.seq = calls.seq + 1]
                /\ Emit({})
                /\ UNCHANGED <<users, venues, courses, schedules,
                               notifications, inflight, probe, announcements,
                               sockets, rooms, connectedUsers>>

(***************************************************************************)
(* SpecRooms: a student and a lecturer connect to the API server and       *)
(* disconnect while the student enrolls in and drops the course and the    *)
(* course room is emitted to.                                              *)
(***************************************************************************)
InitRooms ==
    /\ users = [a |-> "ADMIN", l1 |-> "LECTURER", s1 |-> "STUDENT"]
    /\ venues = [V |-> "AVAILABLE"]
    /\ courses = [c1 |-> "l1"]
    /\ enrollments = {}
    /\ EmptyTables

NextRooms ==
    \/ \E token \in {"s1", "l1"} : connection(token)
    \/ \E id \in 1..MaxSockets, ok \in BOOLEAN : joinCourseRooms(id, ok)
    \/ \E id \in 1..MaxSockets : disconnect(id)
    \/ svcEnrollInCourse("s1", "c1")
    \/ \E reachable \in BOOLEAN : serviceRequest(reachable)
    \/ svcRespond
    \/ \E u \in {"s1", "l1"} : dropCourse(u, "c1")
    \/ Send(emitToCourse("c1", "schedule-update"))

SpecRooms == InitRooms /\ [][NextRooms]_vars

(***************************************************************************)
(* Properties of the course rooms of an open connection.                   *)
(***************************************************************************)
\* the course rooms of a socket
CourseRoomsOf(table, id) ==
    { p[1] : p \in { q \in table : q[2] = id /\ q[1][1] = "course" } }

C25_RoomStep ==
    \* enrollInCourse and dropCourse change no room
    /\ enrollments' # enrollments => rooms' = rooms
    \* the rooms of a connection that has joined stay as they are while it
    \* is open
    /\ \A id \in DOMAIN sockets :
          (sockets[id].stage = "joined" /\ sockets'[id].connected) =>
              { p \in rooms' : p[2] = id } = { p \in rooms : p[2] = id }
    \* the course rooms a connection joins are those of the enrollments of
    \* its user when its lookup runs (none when the lookup throws)
    /\ \A id \in DOMAIN sockets :
          (sockets[id].stage = "lookup" /\ sockets'[id].stage = "joined") =>
              CourseRoomsOf(rooms', id)
                  \in {{},
                       { Room("course", c) :
                           c \in courseIds(sockets[id].userId,
                                           sockets[id].role) }}

\* an emit to a course room reaches only sockets that joined the room
C25_CourseEmits ==
    \A d \in delivered :
        d.room[1] = "course" => d.room \in CourseRoomsOf(rooms, d.conn)

\* C25: the course rooms of a live connection are fixed when it connects:
\* enrollInCourse and dropCourse executed while it is open never add it to
\* or remove it from a course room, so a student who enrolls in course c
\* mid-session receives no emit to course:<c> until a new connection is
\* made, whose rooms reflect the enrollments at its own connect time.
C25_RoomsFixedAtConnect == []C25_CourseEmits /\ [][C25_RoomStep]_vars

\* s1 connected before enrolling and again after: an emit to course:c1
\* reaches the second socket and not the first
C25_Witness ==
    /\ Len(sockets) = 2
    /\ sockets[1].userId = "s1" /\ sockets[1].connected
    /\ sockets[1].stage = "joined"
    /\ sockets[2].userId = "s1" /\ sockets[2].connected
    /\ \E x \in enrollments : x.studentId = "s1" /\ x.courseId = "c1"
    /\ CourseRoomsOf(rooms, 1) = {}
    /\ CourseRoomsOf(rooms, 2) = {Room("course", "c1")}
    /\ emitted = emitToCourse("c1", "schedule-update")
    /\ \E d \in delivered : d.conn = 2
    /\ \A d \in delivered : d.conn # 1

(***************************************************************************)
(* SpecLive: the operations that emit a live 'notification' event to the   *)
(* room of one user (the schedule handlers of the controller, POST / of    *)
(* the notification service sent by a signed-in client, the subscribers of *)
(* the event bus) and the two listings a client reads its records with.    *)
(***************************************************************************)
\* the row values of a listing
Listed(data) == { data[i] : i \in 1..Len(data) }

\* a handler carried out in one step has answered
Answered == calls' = [NoCall EXCEPT !.seq = calls.seq + 1]

\* POST / of the notification service with the token of u: protect, then
\* createNotification: the user lookup, prisma.notification.create, the
\* emit to user:<userId>, the response; ok is FALSE when the create throws
svcCreateNotification(u, userId, type, ok) ==
    LET item == Item("remote", userId, NoValue, NoValue, type, <<"m">>,
                     NoValue)
        p == postNotification(Bearer(u), item)
        r == IF p[1] = 201 /\ ~ok THEN <<500, << >> >> ELSE p
    IN  /\ Idle
        /\ Len(notifications) + Len(r[2]) <= NotifCap
        /\ notifications' = notifications \o r[2]
        /\ Emit(IF r[1] = 201 THEN {ioEmit(item)} ELSE {})
        /\ resp' = Response("createNotification", r[1],
                            IF r[1] = 201 THEN "none" ELSE "error", u, 0,
                            NoValue)
        /\ Answered
        /\ UNCHANGED <<users, venues, courses, enrollments, schedules,
                       inflight, probe, announcements, sockets, rooms,
                       connectedUsers>>

\* the type of the record a subscriber of the event bus creates
SubscriberType(event) ==
    IF event = "course.created" THEN "COURSE_CREATED" ELSE "COURSE_ENROLLED"

\* eventBus.publish(event, data) reaching the subscriber of the
\* notification service: prisma.notification.create for data.lecturerId or
\* data.studentId, then the emit to the room of that user; a create that
\* throws (ok FALSE, or a user the table does not hold) is logged
publish(event, userId, courseId, ok) ==
    LET type == SubscriberType(event)
        created == ok /\ userId \in DOMAIN users
    IN  /\ Idle
        /\ Len(notifications) < NotifCap
        /\ notifications' =
              IF created
              THEN Append(notifications,
                          Record(userId, type, <<event, courseId>>,
                                 <<"courses", courseId>>))
              ELSE notifications
        /\ Emit(IF created
                THEN {RoomEmit("notification", Room("user", userId),
                               "notification", type)}
                ELSE {})
        /\ Answered
        /\ UNCHANGED <<users, venues, courses, enrollments, schedules, resp,
                       inflight, probe, announcements, sockets, rooms,
                       connectedUsers>>

InitLive == InitInbox

NextLive ==
    \/ createScheduleCommit("l1", "V", "c1", "MONDAY", T1000, T1100)
    \/ \E id \in ScheduleIds : deleteScheduleCommit("l1", id)
    \/ \E ok \in BOOLEAN : notifyWrite(ok)
    \/ sendResponse
    \/ \E u \in {"s1", "invalid"}, userId \in {"s1", "ghost"},
          ok \in BOOLEAN :
          svcCreateNotification(u, userId, "GENERAL", ok)
    \/ \E ok \in BOOLEAN : publish("course.enrolled", "s1", "c1", ok)
    \/ \E userId \in {"l1", "ghost"} :
          publish("course.created", userId, "c1", TRUE)
    \/ \E u \in {"s1", "l1"} : getNotifications(u, FALSE)
    \/ \E limit \in {1, DefaultLimit} : svcGetNotifications("s1", FALSE, limit)

SpecLive == InitLive /\ [][NextLive]_vars

(***************************************************************************)
(* Properties of the live 'notification' events.                           *)
(***************************************************************************)
\* the row count of the Notification table when the request that the step
\* belongs to began
FanoutBase == IF calls.stage = "fanout" THEN calls.base ELSE Len(notifications)

\* every 'notification' event the step emits to user:<u> has a row for u, of
\* the type of the event, inserted by the same request and returned by the
\* query of the listings
C21_EventHasRecord ==
    \A ev \in emitted' :
        ev.event = "notification" =>
            \E k \in (FanoutBase + 1)..Len(notifications') :
                /\ notifications'[k].userId = ev.to[2]
                /\ notifications'[k].type = ev.type
                /\ \A data \in getUserNotifications(notifications', ev.to[2],
                                                    FALSE) :
                       k \in Listed(data)

\* the rows whose request has emitted its live events: under SpecLive every
\* insert is followed by the event for its recipient before the request is
\* answered, so these are the rows not of a request still in its fan-out
Announced ==
    { k \in 1..Len(notifications) :
        ~(calls.stage = "fanout" /\ k > calls.base) }

\* each row a request has inserted has its live event when the request is
\* answered with success (the reading of Announced)
EveryRowAnnounced ==
    (calls'.stage = "answered" /\ emitted' # emitted) =>
        \A k \in (FanoutBase + 1)..Len(notifications') :
            RoomEmit(IF calls.stage = "fanout" THEN "api" ELSE "notification",
                     Room("user", notifications'[k].userId), "notification",
                     notifications'[k].type) \in emitted'

AnnouncedBeforeAnswer == [][EveryRowAnnounced]_vars

\* the step is a listing of all the records of its caller
C21_ListStep ==
    /\ resp'.op \in {"getUserNotifications", "getNotifications"}
    /\ probe'.op = resp'.op /\ ~probe'.unreadOnly
    /\ UNCHANGED <<notifications, calls>>

\* the listing of the step is full and holds no row older than row k
C21_CutAtLimit(k) ==
    /\ Len(probe'.data) = probe'.limit
    /\ \A j \in Listed(probe'.data) :
          notifications[j].createdAt >= notifications[k].createdAt

\* C21 as amended: every live 'notification' event emitted to room user:<u>
\* is emitted only after a Notification record for u from the same fan-out
\* has been persisted, and a list for u issued at any time after the event
\* contains every such record unless the list is cut at its limit, in which
\* case it is full and holds only records at least as new.
C21_Step ==
    /\ C21_EventHasRecord
    /\ C21_ListStep =>
          \A k \in Announced :
              notifications[k].userId = probe'.userId =>
                  k \in Listed(probe'.data) \/ C21_CutAtLimit(k)

C21_OriginalStep ==
    /\ C21_EventHasRecord
    /\ C21_ListStep =>
          \A k \in Announced :
              notifications[k].userId = probe'.userId =>
                  k \in Listed(probe'.data)

C31_LecturerOfCourse ==
    \A id \in DOMAIN schedules :
        schedules[id].lecturerId = courses[schedules[id].courseId]

(***************************************************************************)
(* SpecClock: createSchedule and updateSchedule with time strings whose    *)
(* hour has one digit or two, all accepted by validateTimeFormat.          *)
(***************************************************************************)
T900 == <<9, 10, 0, 0>>      \* "9:00"
T930 == <<9, 10, 3, 0>>      \* "9:30"

ClockTimes == {T900, T930, T0900, T1000, T1100}

\* the time of day a time string denotes, in minutes after midnight
Minutes(t) ==
    IF Len(t) = 4 THEN 60 * t[1] + 10 * t[3] + t[4]
    ELSE 60 * (10 * t[1] + t[2]) + 10 * t[4] + t[5]

InitClock == InitSlots

NextClock ==
    \/ \E startTime \in ClockTimes, endTime \in ClockTimes :
          createSchedule("a", "V", "c1", "MONDAY", startTime, endTime)
    \/ \E id \in ScheduleIds, startTime \in ClockTimes,
          endTime \in ClockTimes :
          updateSchedule("a", id, NoValue, NoValue, NoValue, startTime,
                         endTime)
    \/ \E id \in ScheduleIds : deleteSchedule("a", id)

SpecClock == InitClock /\ [][NextClock]_vars

\* the stored slots other than id that share venue V and MONDAY and overlap
\* [startTime, endTime) as times of day
ClockOverlaps(id, startTime, endTime) ==
    { i \in DOMAIN schedules \ {id} :
        /\ schedules[i].venueId = "V" /\ schedules[i].dayOfWeek = "MONDAY"
        /\ Minutes(startTime) < Minutes(schedules[i].endTime)
        /\ Minutes(schedules[i].startTime) < Minutes(endTime) }

C32_Step ==
    \A startTime \in ClockTimes, endTime \in ClockTimes :
        /\ createSchedule("a", "V", "c1", "MONDAY", startTime, endTime) =>
              /\ resp'.err = "validation"
                    <=> ~(Minutes(startTime) < Minutes(endTime))
              /\ resp'.err = "none" => ClockOverlaps(0, startTime, endTime) = {}
        /\ \A id \in DOMAIN schedules :
              updateSchedule("a", id, NoValue, NoValue, NoValue, startTime,
                             endTime) =>
                  (resp'.err = "none" =>
                      ClockOverlaps(id, startTime, endTime) = {})

\* C32: for every pair of time strings accepted by validateTimeFormat (hours
\* written with one or two digits), the start-before-end check and the
\* conflict query of createSchedule and updateSchedule order the two values
\* as times of day: a request is rejected for start >= end exactly when the
\* start is not chronologically earlier than the end, and every
\* chronological overlap with a stored slot on the same venue and day is
\* detected.
C32_TimesOfDay ==
    /\ \A t \in ClockTimes : validateTimeFormat(t)
    /\ [][C32_Step]_vars

(***************************************************************************)
(* checkAvailability, GET /api/venues/available (userController.js) and    *)
(* GET /available of the venue service (part_012): the same handler twice. *)
(***************************************************************************)
\* the overlap test with every comparison inclusive: adjacent slots overlap
AvailabilityOverlapInclusive(schedule, startTime, endTime) ==
    \/ StrLe(schedule.startTime, startTime) /\ StrLe(startTime, schedule.endTime)
    \/ StrLe(schedule.startTime, endTime) /\ StrLe(endTime, schedule.endTime)
    \/ StrLe(startTime, schedule.startTime) /\ StrLe(schedule.endTime, endTime)

\* the callback of venue.schedules.some(...)
AvailabilityOverlap(schedule, startTime, endTime) ==
    \/ ~StrLt(startTime, schedule.startTime) /\ StrLt(startTime, schedule.endTime)
    \/ StrLt(schedule.startTime, endTime) /\ ~StrLt(schedule.endTime, endTime)
    \/ StrLe(startTime, schedule.startTime) /\ ~StrLt(endTime, schedule.endTime)

\* venues.filter(...): the venues of status AVAILABLE without a slot on the
\* day that overlaps
availableVenues(dayOfWeek, startTime, endTime) ==
    { v \in DOMAIN venues :
        /\ venues[v] = "AVAILABLE"
        /\ ~\E i \in DOMAIN schedules :
              /\ schedules[i].venueId = v
              /\ schedules[i].dayOfWeek = dayOfWeek
              /\ AvailabilityOverlap(schedules[i], startTime, endTime) }

checkAvailability(u, dayOfWeek, startTime, endTime) ==
    IF dayOfWeek = NoValue \/ NoTime \in {startTime, endTime}
    THEN /\ Reject("checkAvailability", 400, "validation", u, 0, NoValue)
    ELSE /\ probe' = [op |-> "checkAvailability", dayOfWeek |-> dayOfWeek,
                      startTime |-> startTime, endTime |-> endTime,
                      data |-> availableVenues(dayOfWeek, startTime, endTime)]
         /\ resp' = Response("checkAvailability", 200, "none", u, 0, NoValue)
         /\ Emit({})
         /\ UNCHANGED <<users, venues, courses, enrollments, schedules,
                        notifications, inflight, calls, announcements,
                        sockets, rooms, connectedUsers>>

(***************************************************************************)
(* SpecAvailability: slots are created and moved in two venues, one of     *)
(* them under maintenance, and the availability of intervals is queried.   *)
(***************************************************************************)
InitAvailability ==
    /\ users = [a |-> "ADMIN"]
    /\ venues = [V |-> "AVAILABLE", W |-> "MAINTENANCE"]
    /\ courses = [c1 |-> "a"]
    /\ enrollments = {}
    /\ EmptyTables

NextAvailability ==
    \/ \E venueId \in {"V", "W"}, startTime \in {T0900, T0930, T1000},
          endTime \in {T1000, T1100} :
          createSchedule("a", venueId, "c1", "MONDAY", startTime, endTime)
    \/ \E id \in ScheduleIds :
          updateSchedule("a", id, NoValue, NoValue, NoValue, T1000, NoTime)
    \/ \E dayOfWeek \in {NoValue, "MONDAY", "TUESDAY"},
          startTime \in {NoTime, T900, T0900, T1000},
          endTime \in {T0930, T1000, T1100} :
          checkAvailability("a", dayOfWeek, startTime, endTime)

SpecAvailability == InitAvailability /\ [][NextAvailability]_vars

\* C33: for every venue v with status AVAILABLE, every day d and every
\* interval with S < E, checkAvailability(d, S, E) lists v exactly when
\* createSchedule for (v, d, S, E) would not be rejected with the conflict
\* error: the overlap test of the availability query and the conflict query
\* of createSchedule agree on every pair of intervals, boundary-adjacent
\* ones included.
C33_AvailabilityAgrees ==
    (/\ resp.op = "checkAvailability" /\ resp.err = "none"
     /\ StrLt(probe.startTime, probe.endTime))
        => \A v \in DOMAIN venues :
              venues[v] = "AVAILABLE" =>
                  (v \in probe.data
                      <=> createScheduleError("a", v, "c1", probe.dayOfWeek,
                                              probe.startTime,
                                              probe.endTime)[2] # "conflict")

\* the availability of 10:00-11:00 was asked with 09:00-10:00 booked in V,
\* and V is listed
C33_Witness ==
    /\ resp.op = "checkAvailability" /\ resp.err = "none"
    /\ probe.dayOfWeek = "MONDAY"
    /\ probe.startTime = T1000 /\ probe.endTime = T1100
    /\ \E i \in DOMAIN schedules :
          /\ schedules[i].venueId = "V" /\ schedules[i].dayOfWeek = "MONDAY"
          /\ schedules[i].startTime = T0900 /\ schedules[i].endTime = T1000
    /\ probe.data = {"V"}

(***************************************************************************)
(* updateVenue, PUT /api/venues/:id of the controller (userController.js), *)
(* step by step: one awaited createNotification({ userId }) for each       *)
(* lecturer with a slot in the venue, then prisma.venue.update and the     *)
(* response.                                                               *)
(***************************************************************************)
updateVenueCommit(u, id, status) ==
    LET e == updateVenueError(u, id, status)
    IN  /\ Idle
        /\ IF e[2] # "none"
           THEN RejectCall("updateVenue", e[1], e[2], u, 0)
           ELSE LET ids == IF status # NoValue /\ status # venues[id]
                           THEN SetToSeq(VenueLecturerIds(id)) ELSE << >>
                    row == [venueId |-> id,
                            status |-> Resulting(status, venues[id]),
                            stored |-> venues[id]]
                IN  /\ calls' = Call("updateVenue", FALSE, u, 0, 200, row,
                                     [ k \in 1..Len(ids) |->
                                         Item("user", ids[k], NoValue,
                                              NoValue, "VENUE_STATUS_CHANGE",
                                              <<"Venue", id,
                                                "status changed to", status>>,
                                              <<"venues", id>>) ],
                                     TRUE, TRUE)
                    /\ Emit({})
                    /\ UNCHANGED <<users, venues, courses, enrollments,
                                   schedules, notifications, resp, inflight,
                                   probe, announcements,
                                   sockets, rooms, connectedUsers>>

\* await prisma.venue.update(...) and res.status(200).json(...); ok is
\* FALSE when the update throws and the catch passes the error on
venueRespond(ok) ==
    /\ calls.stage = "fanout" /\ ~calls.remote /\ calls.commitLast
    /\ calls.next > Len(calls.items)
    /\ venues' = IF ok
                 THEN [venues EXCEPT ![calls.row.venueId] = calls.row.status]
                 ELSE venues
    /\ resp' = IF ok
               THEN Response(calls.op, 200, "none", calls.user, calls.id,
                             NoValue)
               ELSE Response(calls.op, 500, "error", calls.user, calls.id,
                             NoValue)
    /\ calls' = [calls EXCEPT !.stage = "answered"]
    /\ UNCHANGED <<users, courses, enrollments, schedules, notifications,
                   inflight, probe, emitted, announcements,
                   delivered, sockets, rooms, connectedUsers>>

(***************************************************************************)
(* SpecVenue: lecturers book slots in a venue and an administrator changes *)
(* the status of the venue, through the controller and through the venue   *)
(* service, with the notification service up.                              *)
(***************************************************************************)
InitVenue ==
    /\ users = [a |-> "ADMIN", l1 |-> "LECTURER", l2 |-> "LECTURER"]
    /\ venues = [V |-> "AVAILABLE"]
    /\ courses = [c1 |-> "l1", c2 |-> "l2"]
    /\ enrollments = {}
    /\ EmptyTables

NextVenue ==
    \/ /\ Idle
       /\ \E courseId \in {"c1", "c2"},
             iv \in {<<T0900, T1000>>, <<T1000, T1100>>} :
             createSchedule("a", "V", courseId, "MONDAY", iv[1], iv[2])
    \/ \E u \in {"a", "l1"}, id \in {"V", "X"},
          status \in {NoValue, "AVAILABLE", "MAINTENANCE", "CLOSED"} :
          updateVenueCommit(u, id, status)
    \/ \E ok \in BOOLEAN : notifyWrite(ok)
    \/ \E ok \in BOOLEAN : venueRespond(ok)
    \/ \E status \in {NoValue, "AVAILABLE", "MAINTENANCE"} :
          svcUpdateVenue("a", "V", status)
    \/ serviceRequest(TRUE)
    \/ svcRespond

SpecVenue == InitVenue /\ [][NextVenue]_vars

(***************************************************************************)
(* Properties of updateVenue.                                              *)
(***************************************************************************)
\* the VENUE_STATUS_CHANGE records for user l that request c has inserted
VenueRecords(c, l) ==
    { k \in (c.base + 1)..Len(notifications) :
        /\ notifications[k].userId = l
        /\ notifications[k].type = "VENUE_STATUS_CHANGE" }

\* the lecturers request c has to notify: those with a slot in the venue
\* when the status it sets differs from the stored one
VenueRecipients(c) ==
    IF c.row.status # c.row.stored THEN VenueLecturerIds(c.row.venueId)
    ELSE {}

\* C34: updateVenue with a status different from the venue's stored status
\* notifies each lecturer who has at least one slot in that venue exactly
\* once with type VENUE_STATUS_CHANGE, however many slots the lecturer has
\* there; an update whose status is omitted or equal to the stored status,
\* or on a venue without slots, notifies nobody.
C34_EachLecturerOnce ==
    (/\ calls.op = "updateVenue" /\ calls.stage = "answered"
     /\ resp.op = "updateVenue" /\ resp.status = 200)
        => \A l \in DOMAIN users :
              Cardinality(VenueRecords(calls, l)) =
                  IF l \in VenueRecipients(calls) THEN 1 ELSE 0

\* C34 for the controller alone
ControllerEachLecturerOnce ==
    (calls.op = "updateVenue" /\ calls.remote) \/ C34_EachLecturerOnce

\* the controller has changed the status of a venue in which l1 has two
\* slots and l2 none, and l1 has one record
ControllerVenueWitness ==
    /\ calls.op = "updateVenue" /\ calls.stage = "answered" /\ ~calls.remote
    /\ resp.status = 200
    /\ Cardinality({ i \in DOMAIN schedules :
                       schedules[i].lecturerId = "l1" }) = 2
    /\ Cardinality(VenueRecords(calls, "l1")) = 1

\* C35: a VENUE_STATUS_CHANGE notification exists only for a status change
\* that was committed: if a lecturer has been notified that venue v changed
\* to status s, the update of v to s has been persisted; an updateVenue that
\* fails leaves no notification behind.  Stated of the requests that have
\* been answered.
C35_NotifiedOnlyIfCommitted ==
    (calls.op = "updateVenue" /\ calls.stage = "answered")
        => \A l \in DOMAIN users :
              VenueRecords(calls, l) # {} =>
                  /\ resp.status = 200
                  /\ venues[calls.row.venueId] = calls.row.status

(***************************************************************************)
(* createNotification of the notification service step by step: the user   *)
(* lookup, the insert and the live event; the push to the Expo service;    *)
(* the response.  The pushToken column of the User table is held in probe: *)
(* it is written by updatePushToken of the user service only.              *)
(***************************************************************************)
NoToken == << >>

\* the pushToken column before any user has registered a token
NoPushTokens == [op |-> "pushTokens", tokens |-> << >>]

\* user.pushToken of the row of u
pushToken(u) ==
    IF probe.op = "pushTokens" /\ u \in DOMAIN probe.tokens
    THEN probe.tokens[u] ELSE NoToken

\* an Expo token of u and a token of another push service
TokensOf(u) == { <<"ExponentPushToken", u>>, <<"fcm", u>> }

\* PUT /me/push-token of the user service: protect, then the token of
\* req.user is replaced; a falsy token is answered 400
updatePushToken(u, token) ==
    LET status == IF protect(Bearer(u)) # 200 THEN protect(Bearer(u))
                  ELSE IF token = NoToken THEN 400
                  ELSE 200
    IN  /\ probe.op = "pushTokens"
        /\ probe' = IF status = 200
                    THEN [probe EXCEPT !.tokens = (u :> token) @@ @]
                    ELSE probe
        /\ resp' = Response("updatePushToken", status,
                            IF status = 200 THEN "none" ELSE "error", u, 0,
                            NoValue)
        /\ UNCHANGED <<users, venues, courses, enrollments, schedules,
                       notifications, inflight, emitted, calls,
                       announcements, delivered, sockets, rooms,
                       connectedUsers>>

\* Expo.isExpoPushToken
isExpoPushToken(token) ==
    token # NoToken /\ token[1] \in {"ExponentPushToken", "ExpoPushToken"}

\* expo.sendPushNotificationsAsync(messages) seen from outside
PushSent(token, type) ==
    RoomEmit("expo", Room("push", token[2]), "push", type)

\* the messages built whatever the token of the user is
pushMessagesAnyToken(userId, type) ==
    IF pushToken(userId) # NoToken
    THEN <<[to |-> pushToken(userId), type |-> type]>>
    ELSE << >>

\* if (user.pushToken && Expo.isExpoPushToken(user.pushToken)): the
\* messages array, empty when the block is skipped
pushMessages(userId, type) ==
    IF pushToken(userId) # NoToken /\ isExpoPushToken(pushToken(userId))
    THEN <<[to |-> pushToken(userId), type |-> type]>>
    ELSE << >>

\* protect, prisma.user.findUnique, prisma.notification.create and the emit
\* to user:<userId>; ok is FALSE when the create throws
createNotificationCommit(u, userId, type, ok) ==
    LET item == Item("remote", userId, NoValue, NoValue, type, <<"m">>,
                     NoValue)
        p == postNotification(Bearer(u), item)
        r == IF p[1] = 201 /\ ~ok THEN <<500, << >> >> ELSE p
    IN  /\ Idle
        /\ IF r[1] # 201
           THEN RejectCall("createNotification", r[1], "error", u, 0)
           ELSE /\ Len(notifications) < NotifCap
                /\ notifications' = notifications \o r[2]
                /\ Emit({ioEmit(item)})
                /\ calls' = Call("createNotification", FALSE, u, 0, 201,
                                 [userId |-> userId,
                                  pushToken |-> pushToken(userId)],
                                 pushMessages(userId, type), FALSE, FALSE)
                /\ UNCHANGED <<users, venues, courses, enrollments,
                               schedules, resp, inflight, probe,
                               announcements, sockets, rooms,
                               connectedUsers>>

\* try { await expo.sendPushNotificationsAsync(messages) } catch: ok is
\* FALSE when the push rejects, which is logged
sendPushNotificationsAsync(ok) ==
    /\ calls.op = "createNotification" /\ calls.stage = "fanout"
    /\ calls.next <= Len(calls.items)
    /\ emitted' = emitted \cup {PushSent(calls.items[calls.next].to,
                                         calls.items[calls.next].type)}
    /\ calls' = [calls EXCEPT !.next = @ + 1,
                              !.failed = IF ok THEN @ ELSE @ \cup {calls.next}]
    /\ UNCHANGED <<users, venues, courses, enrollments, schedules,
                   notifications, resp, inflight, probe, announcements,
                   delivered, sockets, rooms, connectedUsers>>

\* res.status(201).json({ success: true, data: notification })
createNotificationRespond ==
    /\ calls.op = "createNotification" /\ calls.stage = "fanout"
    /\ calls.next > Len(calls.items)
    /\ resp' = Response("createNotification", 201, "none", calls.user, 0,
                        NoValue)
    /\ calls' = [calls EXCEPT !.stage = "answered"]
    /\ UNCHANGED <<users, venues, courses, enrollments, schedules,
                   notifications, inflight, probe, emitted, announcements,
                   delivered, sockets, rooms, connectedUsers>>

(***************************************************************************)
(* SpecPush: users register an Expo token or a token of another service;   *)
(* signed-in clients post notifications for users with and without a       *)
(* token; the push and the insert may fail.                                *)
(***************************************************************************)
InitPush ==
    /\ users = [a |-> "ADMIN", l1 |-> "LECTURER", s1 |-> "STUDENT"]
    /\ venues = [V |-> "AVAILABLE"]
    /\ courses = [c1 |-> "l1"]
    /\ enrollments = {}
    /\ schedules = << >>
    /\ notifications = << >>
    /\ resp = NoResponse
    /\ inflight = {}
    /\ probe = NoPushTokens
    /\ emitted = {}
    /\ delivered = {}
    /\ sockets = << >>
    /\ rooms = {}
    /\ connectedUsers = [api |-> << >>, notification |-> << >>]
    /\ calls = NoCall
    /\ announcements = << >>

NextPush ==
    \/ \E u \in {"a", "invalid"}, userId \in {"a", "l1", "s1", "ghost"},
          type \in {"GENERAL", "REMINDER"}, ok \in BOOLEAN :
          createNotificationCommit(u, userId, type, ok)
    \/ \E ok \in BOOLEAN : sendPushNotificationsAsync(ok)
    \/ createNotificationRespond
    \/ \E u \in {"a", "l1", "s1"} : svcGetNotifications(u, FALSE, DefaultLimit)
    \/ \E u \in {"l1", "s1", "invalid"} :
          \E token \in TokensOf(u) \cup {NoToken} : updatePushToken(u, token)

SpecPush == InitPush /\ [][NextPush]_vars

\* the push messages in the events of the request
Pushes == { ev \in emitted : ev.event = "push" }

\* the record the request in progress has inserted is in the table
PushRecordKept ==
    /\ calls.base < Len(notifications)
    /\ notifications[calls.base + 1].userId = calls.row.userId

C36_State ==
    calls.op = "createNotification" =>
        /\ PushRecordKept
        /\ Pushes # {} =>
              /\ calls.row.pushToken # NoToken
              /\ isExpoPushToken(calls.row.pushToken)
              /\ Pushes = {PushSent(calls.row.pushToken,
                                    notifications[calls.base + 1].type)}
        /\ (calls.stage = "answered" /\ resp.op = "createNotification")
              => resp.status = 201

C36_PushStep ==
    (calls.op = "createNotification" /\ calls.stage = "fanout"
     /\ calls' # calls)
        => /\ calls'.op = "createNotification"
           /\ \/ calls'.stage = "answered" /\ resp'.status = 201
              \/ /\ calls'.stage = "fanout"
                 /\ calls'.next = calls.next + 1 /\ calls.next = 1
           /\ notifications' = notifications

\* C36: in the notification service's createNotification, the external
\* push is attempted only after the Notification record is persisted and
\* only when the recipient has a valid push token; a failing push neither
\* removes the record nor changes the 201 response, and is not retried.
C36_BestEffortPush == []C36_State /\ [][C36_PushStep]_vars

\* the push for s1 failed and the request was answered 201 with the record
\* in the table
C36_Witness ==
    /\ calls.op = "createNotification" /\ calls.stage = "answered"
    /\ calls.row.userId = "s1" /\ calls.failed = {1}
    /\ resp.op = "createNotification" /\ resp.status = 201
    /\ Pushes # {}
    /\ PushRecordKept

(***************************************************************************)
(* SpecRecipients: the schedule service and the venue service notify a     *)
(* roster of two students and the lecturers of two courses, one remote     *)
(* call for each recipient; every call may fail.                           *)
(***************************************************************************)
InitRecipients ==
    /\ users = [a |-> "ADMIN", l1 |-> "LECTURER", l2 |-> "LECTURER",
                s1 |-> "STUDENT", s2 |-> "STUDENT"]
    /\ venues = [V |-> "AVAILABLE"]
    /\ courses = [c1 |-> "l1", c2 |-> "l2"]
    /\ enrollments = {[courseId |-> "c1", studentId |-> "s1",
                       status |-> "ACTIVE"],
                      [courseId |-> "c1", studentId |-> "s2",
                       status |-> "ACTIVE"]}
    /\ EmptyTables

NextRecipients ==
    \/ \E courseId \in {"c1", "c2"},
          iv \in {<<T0900, T1000>>, <<T1000, T1100>>} :
          svcCreateSchedule("a", "V", courseId, "MONDAY", iv[1], iv[2])
    \/ \E id \in ScheduleIds : svcDeleteSchedule("a", id)
    \/ \E status \in {NoValue, "AVAILABLE", "MAINTENANCE"} :
          svcUpdateVenue("a", "V", status)
    \/ \E reachable \in BOOLEAN : serviceRequest(reachable)
    \/ svcRespond

SpecRecipients == InitRecipients /\ [][NextRecipients]_vars

\* the requests whose fan-out is one remote call for each recipient
RecipientOps == {"createSchedule", "deleteSchedule", "updateVenue"}

\* the recipients the handler of request c resolves
ResolvedRecipients(c) ==
    IF c.op = "updateVenue" THEN VenueRecipients(c)
    ELSE RosterStudentIds(c.row.courseId, {})

\* call i of request c has been made
Attempted(c, i) == i \in c.failed \/ RowsOfItem(c, i) # {}

C37_State ==
    (calls.op \in RecipientOps /\ calls.remote) =>
        /\ { calls.items[i].userId : i \in 1..Len(calls.items) }
              = ResolvedRecipients(calls)
        /\ Len(calls.items) = Cardinality(ResolvedRecipients(calls))
        /\ calls.stage = "answered" =>
              \A i \in 1..Len(calls.items) : Attempted(calls, i)

C37_CallStep ==
    (/\ calls.op \in RecipientOps /\ calls.remote /\ calls.stage = "fanout"
     /\ calls' # calls /\ calls.next <= Len(calls.items))
        => /\ calls'.stage = "fanout" /\ calls'.items = calls.items
           /\ calls'.next = calls.next + 1
           /\ \/ calls.next \in calls'.failed
              \/ Len(notifications') = Len(notifications) + 1

\* C37: in a roster or lecturer fan-out made of one remote call per
\* recipient (schedule service notifyCourseStudents, venue service
\* updateVenue), the failure of the call for one recipient does not prevent
\* the call for any other recipient: every resolved recipient has exactly
\* one call attempted.
C37_EveryRecipientCalled == []C37_State /\ [][C37_CallStep]_vars

\* an updateVenue for the lecturers of two slots was answered after the
\* call for the first lecturer failed and the call for the second was made
C37_Witness ==
    /\ calls.op = "updateVenue" /\ calls.remote /\ calls.stage = "answered"
    /\ Len(calls.items) = 2
    /\ 1 \in calls.failed
    /\ Attempted(calls, 2)

\* C38: after a successful enrollInCourse in the course service, the notify
\* call for the student (COURSE_ENROLLED) is attempted whether or not the
\* notify call for the lecturer (NEW_ENROLLMENT) succeeded.
C38_StudentCallAttempted ==
    (/\ calls.op = "enrollInCourse" /\ calls.stage = "answered"
     /\ calls.row \in enrollments)
        => \E i \in 1..Len(calls.items) :
              /\ calls.items[i].type = "COURSE_ENROLLED"
              /\ calls.items[i].userId = calls.row.studentId
              /\ Attempted(calls, i)

(***************************************************************************)
(* The in-memory event bus of the shared module (SimpleEventBus).  The bus *)
(* is held in probe: listeners is the object of subscriber lists, keyed by *)
(* the events subscribed so far; invoked and promises are the calls and    *)
(* the results of the last publish, settled is how its promise ended.      *)
(***************************************************************************)

\* the largest number of subscriptions made on the bus
MaxSubscriptions == 3

\* the events of the subscribers of the notification service
BusEvents == {"course.created", "course.enrolled"}

\* what a callback does when invoked: return (a promise that fulfils),
\* throw synchronously, return a promise that rejects, or subscribe a
\* further callback to its own event before returning
Behaviours == {"returns", "throws", "rejects", "subscribes"}

\* constructor(): this.listeners = {}
SimpleEventBus ==
    [op |-> "eventBus", listeners |-> << >>, count |-> 0, last |-> "new",
     event |-> NoValue, data |-> NoValue, invoked |-> << >>,
     promises |-> << >>, settled |-> "none"]

\* the bus after subscribe(event, callback), the callback being a new
\* function that behaves as given
Subscribed(bus, event, behaviour) ==
    LET callback == [id |-> bus.count + 1, event |-> event,
                     behaviour |-> behaviour]
        listeners == bus.listeners
    IN  [bus EXCEPT
            !.count = bus.count + 1,
            !.listeners =
                IF event \notin DOMAIN listeners
                THEN (event :> <<callback>>) @@ listeners
                ELSE [listeners EXCEPT ![event] = Append(@, callback)]]

\* callback(data): the call is made, and a callback that subscribes does so
Invoke(bus, callback, data) ==
    LET called == [bus EXCEPT
                      !.invoked = Append(@, [callback |-> callback,
                                             data |-> data])]
    IN  IF callback.behaviour = "subscribes" /\ bus.count < MaxSubscriptions
        THEN Subscribed(called, callback.event, "returns")
        ELSE called

\* what the arrow function of the map returns for a callback
Promise(callback) ==
    IF callback.behaviour = "throws" THEN "null"
    ELSE IF callback.behaviour = "rejects" THEN "rejected"
    ELSE "fulfilled"

\* the map with one try/catch around the whole of it: the first callback
\* that throws ends the map
RECURSIVE MapListenersOneTry(_, _, _, _, _)
MapListenersOneTry(bus, event, i, n, data) ==
    IF i > n THEN bus
    ELSE LET callback == bus.listeners[event][i]
             after == Invoke(bus, callback, data)
             result == [after EXCEPT
                           !.promises = Append(@, Promise(callback))]
         IN  IF callback.behaviour = "throws" THEN result
             ELSE MapListenersOneTry(result, event, i + 1, n, data)

\* this.listeners[event].map(callback => { try { return callback(data) }
\* catch { return null } }) from index i on; n is the length of the list
\* when the map began, so a callback appended during the map is not visited
RECURSIVE MapListeners(_, _, _, _, _)
MapListeners(bus, event, i, n, data) ==
    IF i > n THEN bus
    ELSE LET callback == bus.listeners[event][i]
             after == Invoke(bus, callback, data)
             result == [after EXCEPT
                           !.promises = Append(@, Promise(callback))]
         IN  MapListeners(result, event, i + 1, n, data)

\* eventBus.subscribe(event, callback)
subscribe(event, behaviour) ==
    /\ probe.op = "eventBus"
    /\ probe.count < MaxSubscriptions
    /\ probe' = [Subscribed(probe, event, behaviour) EXCEPT
                    !.last = "subscribe"]
    /\ UNCHANGED <<users, venues, courses, enrollments, schedules,
                   notifications, resp, inflight, emitted, calls,
                   announcements, delivered, sockets, rooms, connectedUsers>>

\* eventBus.publish(event, data): returns when the event has no list, else
\* maps the list and awaits Promise.all of the results
publishEvent(event, data) ==
    LET start == [probe EXCEPT !.last = "publish", !.event = event,
                               !.data = data, !.invoked = << >>,
                               !.promises = << >>]
        mapped == MapListeners(start, event, 1,
                               Len(probe.listeners[event]), data)
        rejected == \E k \in 1..Len(mapped.promises) :
                        mapped.promises[k] = "rejected"
    IN  /\ probe.op = "eventBus"
        /\ probe' =
              IF event \notin DOMAIN probe.listeners
              THEN [start EXCEPT !.settled = "fulfilled"]
              ELSE [mapped EXCEPT
                       !.settled = IF rejected THEN "rejected"
                                   ELSE "fulfilled"]
        /\ UNCHANGED <<users, venues, courses, enrollments, schedules,
                       notifications, resp, inflight, emitted, calls,
                       announcements, delivered, sockets, rooms,
                       connectedUsers>>

\* the two payloads published
BusData == {"d1", "d2"}

InitBus ==
    /\ users = [a |-> "ADMIN"]
    /\ venues = [V |-> "AVAILABLE"]
    /\ courses = [c1 |-> "a"]
    /\ enrollments = {}
    /\ schedules = << >>
    /\ notifications = << >>
    /\ resp = NoResponse
    /\ inflight = {}
    /\ emitted = {}
    /\ delivered = {}
    /\ sockets = << >>
    /\ rooms = {}
    /\ connectedUsers = [api |-> << >>, notification |-> << >>]
    /\ calls = NoCall
    /\ announcements = << >>
    /\ probe = SimpleEventBus

NextBus ==
    \/ \E event \in BusEvents, behaviour \in Behaviours :
          subscribe(event, behaviour)
    \/ \E event \in BusEvents, data \in BusData : publishEvent(event, data)

SpecBus == InitBus /\ [][NextBus]_vars

\* the callbacks subscribed to an event on a bus, in subscription order
ListenersOf(bus, event) ==
    IF event \in DOMAIN bus.listeners THEN bus.listeners[event] ELSE << >>

\* a publish of e with d calls exactly the callbacks that were subscribed to
\* e before it, each once, in subscription order and with d, whatever each
\* of them does; without subscribers it calls none and leaves the bus as it
\* was
PublishCallsSubscribers(e, d) ==
    LET before == ListenersOf(probe, e)
    IN  publishEvent(e, d) =>
           /\ Len(probe'.invoked) = Len(before)
           /\ \A k \in 1..Len(before) :
                 /\ probe'.invoked[k] = [callback |-> before[k], data |-> d]
                 /\ before[k].event = e
                 /\ \A j \in 1..Len(before) :
                       before[j].id = before[k].id => j = k
           /\ before = << >> =>
                 /\ probe'.listeners = probe.listeners
                 /\ probe'.count = probe.count
                 /\ probe'.settled = "fulfilled"

\* C39: SimpleEventBus.publish(e, d) invokes every callback subscribed to e
\* before the publish exactly once, in subscription order, with d, and
\* invokes no callback subscribed to another event; publish on an event
\* without subscribers does nothing; a callback that throws synchronously
\* does not prevent the remaining callbacks from being invoked.
C39_PublishInvokesSubscribers ==
    [][\A e \in BusEvents, d \in BusData : PublishCallsSubscribers(e, d)]_vars

\* a publish on an event with two subscribers, the first of which throws,
\* has called both and not the subscriber of the other event
C39_Witness ==
    /\ probe.op = "eventBus" /\ probe.last = "publish"
    /\ Len(ListenersOf(probe, probe.event)) = 2
    /\ \E other \in BusEvents \ {probe.event} :
          Len(ListenersOf(probe, other)) = 1
    /\ probe.promises[1] = "null"
    /\ Len(probe.invoked) = 2

====
